---- MODULE Spec2Model ----
(***************************************************************************)
(* A model of the Zyntalic toolkit: the orchestrator (translator.py,       *)
(* transformers.py), seed derivation (utils/rng.py) and the morphological  *)
(* inflector (morphology.py).                                              *)
(*                                                                         *)
(* Strings are sequences of one-character strings.  Python values that     *)
(* may be passed where a string is expected are records [t, s, n].         *)
(* A letter outside ASCII is written as its base letter and a mark:        *)
(*   e' a' i' o' u'  acute      o: u:  diaeresis     o= u=  double acute   *)
(*   l/ stroke       c' s' z'   acute  and  J..  a Hangul jamo vowel       *)
(***************************************************************************)
EXTENDS Integers, Sequences, FiniteSets, TLC

VARIABLES
    (* ---- orchestrator, one process ---- *)
    phase,        \* "idle": no call observed; "done": a call has returned
    cur,          \* the arguments of the observed call
    out,          \* what the observed call returned or raised
    prev,         \* what the previous call with the same arguments returned
    ghost,        \* per returned record: how translate_sentence produced it
    MODEL,        \* transformers._MODEL: "None" or "loaded"
    env,          \* what is installed in this process (fixed at start)
    (* ---- seed derivation ---- *)
    gens,         \* the random.Random objects handed out by get_rng
    globalRandom, \* the state of the module-level generator of `random`
    draws,        \* how many draws were made on the module-level generator
    (* ---- morphology ---- *)
    mphase,       \* "idle" or "done"
    mcall,        \* the arguments of the last inflector call
    mword,        \* what it returned or raised
    (* ---- phonology ---- *)
    pphase,       \* "idle" or "done"
    pcall,        \* the arguments of the last phonology call
    pout,         \* what it assembled, emitted and returned
    pprev,        \* the word the previous call with the same arguments returned
    (* ---- embeddings ---- *)
    embModel,     \* embeddings._MODEL: "None" or "loaded"
    embDim,       \* embeddings._DIM, 0 for None
    embLib,       \* what the import of sentence_transformers gives (fixed at start)
    embLog,       \* the vectors embed_text has returned in this process
    (* ---- syntax ---- *)
    sphase,       \* "idle" or "done"
    scall,        \* the parser called and its text
    sout,         \* the tokens and verb index it computed and what it returned
    (* ---- lexicon ---- *)
    lexicon,      \* one ZyntalicLexicon: entries, indexes, frequency counts, generator
    lexlog,       \* the last call made on it and what it returned or raised
    (* ---- processors ---- *)
    semantics,    \* one SemanticCoherenceProcessor: its discourse context
    advanced,     \* the AdvancedZyntalicProcessor that owns it: its generator
    pfirst,       \* one earlier call on the instance and what it returned
    plast,        \* the last call on the instance and what it returned
    (* ---- translation cache and the web handler ---- *)
    _cache,       \* cache._cache: the dictionary, in insertion order
    _initialized, \* cache._initialized
    disk,         \* data/cache: the files, translations.json.tmp and translations.json
    puts,         \* every put_cached_translation made so far, oldest first
    weblog,       \* the last call observed and what it answered
    wfirst,       \* the first request POST /translate answered
    threads       \* per worker thread: where it is in put_cached_translation

trVars   == <<phase, cur, out, prev, ghost, MODEL, env>>
rngVars  == <<gens, globalRandom, draws>>
morVars  == <<mphase, mcall, mword>>
phonVars == <<pphase, pcall, pout, pprev>>
embVars  == <<embModel, embDim, embLib, embLog>>
synVars  == <<sphase, scall, sout>>
lexVars  == <<lexicon, lexlog>>
procVars == <<semantics, advanced, pfirst, plast>>
cacheVars == <<_cache, _initialized, disk, puts, weblog, wfirst, threads>>
extVars  == <<lexVars, procVars, cacheVars>>
vars     == <<trVars, rngVars, morVars, phonVars, embVars, synVars, extVars>>

(***************************** bounds ***************************************)
MaxLen   == 4        \* longest input text, in characters
MaxGens  == 2        \* generators alive at once
MaxDraws == 2        \* draws observed per generator
MaxRoot  == 3        \* longest root, in characters
MaxSyll  == 2        \* most syllables asked for
MaxWord  == 3        \* longest word handed to apply_sound_changes, in characters
MaxEmbeds == 3       \* embed_text calls observed in one process
EncoderDim == 2      \* length of the vectors of the learned encoder
MaxTokens == 4       \* most words in a parsed text
MaxEntries == 4      \* most entries a lexicon grows to
MaxSentences == 2    \* most sentences in a text handed to a processor
MaxMentions == 3     \* most mentions of one entity in a discourse context

(***************************** strings **************************************)
RECURSIVE SeqsUpTo(_, _)
SeqsUpTo(S, n) ==
    IF n = 0 THEN {<<>>}
    ELSE LET shorter == SeqsUpTo(S, n - 1)
         IN  shorter \cup {Append(s, c) : s \in {x \in shorter : Len(x) = n - 1}, c \in S}

Whitespace == {" "}
IsSpace(c) == c \in Whitespace

\* str.lower() on one character
LowerChar(c) ==
    CASE c = "A" -> "a" [] c = "B" -> "b" [] c = "E" -> "e" [] c = "O" -> "o"
      [] c = "W" -> "w"
      [] c = "E'" -> "e'"
      [] OTHER -> c
Lower(s) == [i \in 1..Len(s) |-> LowerChar(s[i])]

RECURSIVE LStrip(_)
LStrip(s) == IF s # <<>> /\ IsSpace(Head(s)) THEN LStrip(Tail(s)) ELSE s
RECURSIVE RStrip(_)
RStrip(s) == IF s # <<>> /\ IsSpace(s[Len(s)]) THEN RStrip(SubSeq(s, 1, Len(s) - 1)) ELSE s
\* str.strip()
Strip(s) == RStrip(LStrip(s))
\* t in s
Contains(s, t) == \E i \in 0..(Len(s) - Len(t)) : SubSeq(s, i + 1, i + Len(t)) = t

\* str.split(): the maximal runs of non-whitespace characters
RECURSIVE SplitWords(_)
SplitWords(s) ==
    LET t == LStrip(s) IN
    IF t = <<>> THEN <<>>
    ELSE LET stops == {i \in 1..Len(t) : IsSpace(t[i])}
             e == IF stops = {} THEN Len(t) + 1
                  ELSE CHOOSE i \in stops : \A j \in stops : i <= j
         IN  <<SubSeq(t, 1, e - 1)>> \o SplitWords(SubSeq(t, e, Len(t)))

(***************************** Python values ********************************)
PyStr(s) == [t |-> "str", s |-> s, n |-> 0]
PyNone   == [t |-> "None", s |-> <<>>, n |-> 0]
PyInt(k) == [t |-> "int", s |-> <<>>, n |-> k]
Truthy(v) ==
    CASE v.t = "str" -> v.s # <<>>
      [] v.t = "int" -> v.n # 0
      [] OTHER -> FALSE
\* the expression (text or "")
OrEmpty(v) == IF Truthy(v) THEN v ELSE PyStr(<<>>)

(***************************** translator.py ********************************)
Letters      == {"B"}
TermPunct    == {".", "!", "?"}            \* the class [.!?] of _SENT_SPLIT
Alphabet     == Letters \cup {".", " "}

\* every character the model's strings are made of
Chars      == {"a", "b", "e", "o", "A", "B", "E", "O", "'", "-", " ", ".", "!", "?", ","}
\* the class [A-Za-z0-9'\- ] of _clean_lemma
LemmaChars == {"a", "b", "e", "o", "A", "B", "E", "O", "'", "-", " "}

\* re.sub(r"[class]+", rep, s): every maximal run of characters of the class
\* is replaced by rep
RECURSIVE ReSubRuns(_, _, _)
ReSubRuns(s, class, rep) ==
    IF s = <<>> THEN <<>>
    ELSE IF Head(s) \in class
         THEN LET outside == {i \in 1..Len(s) : s[i] \notin class}
                  e == IF outside = {} THEN Len(s) + 1
                       ELSE CHOOSE i \in outside : \A j \in outside : i <= j
              IN  rep \o ReSubRuns(SubSeq(s, e, Len(s)), class, rep)
         ELSE <<Head(s)>> \o ReSubRuns(Tail(s), class, rep)

_clean_lemma(text) ==
    LET t1 == ReSubRuns(Lower(Strip(OrEmpty(text).s)), Chars \ LemmaChars, <<" ">>)
        t2 == Strip(ReSubRuns(t1, Whitespace, <<" ">>))
    IN  IF t2 = <<>> THEN <<>> ELSE SplitWords(t2)[1]

\* _SENT_SPLIT.split(text) for _SENT_SPLIT = (?<=[.!?])\s+ : the text is cut at
\* every maximal whitespace run that starts right after a terminal punctuation
\* character; the run is dropped, the punctuation stays with its sentence.
RECURSIVE SentSplitFrom(_, _)
SentSplitFrom(s, from) ==
    LET cuts == {i \in from..Len(s) : i > 1 /\ IsSpace(s[i]) /\ s[i-1] \in TermPunct}
    IN  IF cuts = {} THEN <<SubSeq(s, from, Len(s))>>
        ELSE LET i == CHOOSE c \in cuts : \A d \in cuts : c <= d
                 after == {j \in i..Len(s) : ~IsSpace(s[j])}
                 e == IF after = {} THEN Len(s) + 1
                      ELSE CHOOSE j \in after : \A k \in after : j <= k
             IN  <<SubSeq(s, from, i - 1)>> \o SentSplitFrom(s, e)
\* a split at every whitespace run, as the pattern without its lookbehind does
SplitAtAnyWhitespace(s) == SplitWords(s)
_SENT_SPLIT(s) == SentSplitFrom(s, 1)

(***************************** core (not in src/) ***************************)
\* A rendered string is a sequence of tokens [k, v, r]: a synthesized word
\* stands for the characters a seeded generator draws for seed v at rate r.
Tok(k, v, r) == [k |-> k, v |-> v, r |-> r]
AnchoredMark == 0 - 1        \* r of a word drawn under forced anchors

\* core.make_context: the context tail, one bracketed segment of key=value
\* pairs holding a synthesized tail token and the lemma
make_context(text, lemma) ==
    << Tok("open", <<>>, 0), Tok("han", lemma, 0), Tok("lemma", lemma, 0),
       Tok("close", <<>>, 0) >>

\* core.lemmatize: the normal form of one word
lemmatize(word) == Lower(word)

\* core.generate_entry(key, mirror_rate, W): a pure function of its arguments
generate_entry(key, mirror_rate, W) ==
    [ sentence |-> <<Tok("word", key, mirror_rate)>> \o make_context(key, lemmatize(key)),
      anchors  |-> <<[rank |-> 1, of |-> key, W |-> W]>> ]

\* core.plain_sentence_anchored(rng, anchors, weights) with rng = get_rng(text)
plain_sentence_anchored(text) == <<Tok("word", text, AnchoredMark)>>

(***************************** transformers.py ******************************)
\* get_model(): the value of _MODEL after the call.  lib is what the import of
\* sentence_transformers gives in this process, loads whether constructing
\* SentenceTransformer('all-MiniLM-L6-v2') succeeds at this attempt.
get_model(model, lib, loads) ==
    IF lib \notin {"present", "raises"} THEN model
    ELSE IF model = "None" THEN (IF loads THEN "loaded" ELSE "None")
    ELSE model

\* semantic_match(text, top_k = 2): the anchors matched, identified by the text
semantic_match(text, modelNow) ==
    IF modelNow = "None" THEN <<>> ELSE <<text, text>>

\* translate_transformer(text, mirror_rate): [target, inner, model]
\* inner: the "Fallback to core default" of lines 115-118 was taken
translate_transformer(text, mirror_rate, model, lib, loads) ==
    LET modelNow == get_model(model, lib, loads)
        matched  == semantic_match(text, modelNow)
    IN  IF matched = <<>>
        THEN [ target |-> generate_entry(text, mirror_rate, "None").sentence,
               inner  |-> TRUE, model |-> modelNow ]
        ELSE LET lemma == IF text # <<>> THEN lemmatize(SplitWords(text)[1])
                          ELSE <<"v", "o", "i", "d">>
             IN  [ target |-> plain_sentence_anchored(text) \o make_context(text, lemma),
                   inner  |-> FALSE, model |-> modelNow ]

(***************************** chiasmus (not in src/) ***********************)
ChiasmusMark == 0 - 2
translate_chiasmus(src) ==
    <<Tok("word", src, ChiasmusMark)>> \o make_context(src, lemmatize(src))

(***************************** translator.py, continued *********************)
Engines == {"core", "test_suite", "transformer", "chiasmus"}

\* the except branches of translate_sentence (lines 65-67, 79-81, 94-96):
\* the engine that is tried after `engine` raised
OnEngineFailureCascade(engine) ==
    CASE engine = "test_suite"  -> "transformer"
      [] engine = "transformer" -> "chiasmus"
      [] OTHER -> "core"
OnEngineFailure(engine) == "core"

\* the record built from a core entry (lines 100-106)
CoreRecordNoTail(src, lemma, entry) ==
    [ source |-> src, target |-> <<Head(entry.sentence)>>, lemma |-> lemma,
      anchors |-> entry.anchors, engine |-> "core" ]
CoreRecord(src, lemma, entry) ==
    [ source |-> src, target |-> entry.sentence, lemma |-> lemma,
      anchors |-> entry.anchors, engine |-> "core" ]

\* the record of the transformer branch (lines 72-78)
TransformerRecordNoAnchors(src, lemma, target) ==
    [ source |-> src, target |-> target, lemma |-> lemma, engine |-> "transformer" ]
TransformerRecord(src, lemma, target) ==
    [ source |-> src, target |-> target, lemma |-> lemma, anchors |-> <<>>,
      engine |-> "transformer" ]

\* the first argument of core.generate_entry (line 98): lemma or src
EntryKeyIsSource(lemma, src) == src
EntryKey(lemma, src) == IF lemma # <<>> THEN lemma ELSE src

\* translate_sentence(text, mirror_rate=, engine=, W=) run with _MODEL = model
\* in environment e; loads: whether a model load attempted now succeeds.
\* Result: raised (the exception, "none" if it returned), recs (the record
\* returned, as a sequence of length <= 1), gh (how it was produced), model.
translate_sentence(text, mirror_rate, engine, W, model, e, loads) ==
    LET t == OrEmpty(text) IN
    IF t.t # "str"
    THEN [ raised |-> "AttributeError", recs |-> <<>>, gh |-> <<>>, model |-> model ]
    ELSE
    LET src     == Strip(t.s)
        lemma   == _clean_lemma(PyStr(src))
        key     == EntryKey(lemma, src)
        \* if engine == "test_suite"
        tsTried == engine = "test_suite"
        tsOk    == tsTried /\ e.ts
        e2      == IF tsTried /\ ~tsOk THEN OnEngineFailure(engine) ELSE engine
        \* if engine == "transformer"
        trTried == ~tsOk /\ e2 = "transformer"
        tt      == translate_transformer(src, mirror_rate, model, e.tr, loads)
        \* the import of .transformers fails, or model.encode raises
        trOk    == trTried /\ e.tr # "noimport" /\ ~(e.tr = "raises" /\ tt.model = "loaded")
        modelAfter == IF trTried /\ e.tr # "noimport" THEN tt.model ELSE model
        e3      == IF trTried /\ ~trOk THEN OnEngineFailure(e2) ELSE e2
        \* if engine == "chiasmus"
        chTried == ~tsOk /\ ~trOk /\ e3 = "chiasmus"
        chOk    == chTried /\ e.ch
        attempted == (IF tsTried THEN <<"test_suite">> ELSE <<>>)
                     \o (IF trTried THEN <<"transformer">> ELSE <<>>)
                     \o (IF chTried THEN <<"chiasmus">> ELSE <<>>)
        entry   == generate_entry(key, mirror_rate, W)
        G(by, caught, inner) ==
            [ by |-> by, attempted |-> attempted, caught |-> caught, inner |-> inner,
              requested |-> engine ]
    IN  IF tsOk THEN
            [ raised |-> "none",
              recs |-> << [ source |-> src, target |-> entry.sentence, lemma |-> lemma,
                            anchors |-> entry.anchors, engine |-> "test_suite",
                            validation |-> "passed",
                            test_info |-> "Input validated with test suite" ] >>,
              gh |-> << G("test_suite", FALSE, FALSE) >>, model |-> model ]
        ELSE IF trOk THEN
            [ raised |-> "none",
              recs |-> << TransformerRecord(src, lemma, tt.target) >>,
              gh |-> << G("transformer", tsTried, tt.inner) >>, model |-> tt.model ]
        ELSE IF chOk THEN
            [ raised |-> "none",
              recs |-> << [ source |-> src, target |-> translate_chiasmus(src),
                            lemma |-> lemma, anchors |-> <<>>, engine |-> "chiasmus" ] >>,
              gh |-> << G("chiasmus", tsTried \/ trTried, FALSE) >>, model |-> modelAfter ]
        ELSE
            [ raised |-> "none",
              recs |-> << CoreRecord(src, lemma, entry) >>,
              gh |-> << G("core", tsTried \/ trTried \/ chTried, FALSE) >>,
              model |-> modelAfter ]

\* the list comprehension of translate_text (line 123) over parts[i..]; the
\* model load that succeeds is the one attempted for sentence loadAt, if any
RECURSIVE TranslateParts(_, _, _, _, _, _, _, _)
TranslateParts(parts, i, mirror_rate, engine, W, model, e, loadAt) ==
    IF i > Len(parts)
    THEN [ raised |-> "none", recs |-> <<>>, gh |-> <<>>, model |-> model ]
    ELSE IF Strip(parts[i]) = <<>>
    THEN TranslateParts(parts, i + 1, mirror_rate, engine, W, model, e, loadAt)
    ELSE LET ones == { translate_sentence(PyStr(parts[i]), mirror_rate, engine, W,
                                          model, e, loadAt = i) }
         IN  CHOOSE res \in
               UNION { IF one.raised # "none" THEN {one}
                       ELSE { IF rest.raised # "none" THEN rest
                              ELSE [ raised |-> "none", recs |-> one.recs \o rest.recs,
                                     gh |-> one.gh \o rest.gh, model |-> rest.model ] :
                              rest \in { TranslateParts(parts, i + 1, mirror_rate, engine,
                                                        W, one.model, e, loadAt) } } :
                       one \in ones } : TRUE

translate_text(text, mirror_rate, engine, W, model, e, loadAt) ==
    LET t == OrEmpty(text) IN
    IF t.t # "str"
    THEN [ raised |-> "AttributeError", recs |-> <<>>, gh |-> <<>>, model |-> model ]
    ELSE LET stripped == Strip(t.s) IN
         IF stripped = <<>>
         THEN [ raised |-> "none", recs |-> <<>>, gh |-> <<>>, model |-> model ]
         ELSE TranslateParts(_SENT_SPLIT(stripped), 1, mirror_rate, engine, W,
                             model, e, loadAt)

(***************************** utils/rng.py *********************************)
\* A 64-bit unsigned integer is written as its 8 base-256 digits, most
\* significant first: the value is the sum of d[i] * 256^(8-i).
DigestSize == 8

\* str.encode("utf-8") of one character ("e'" is e acute, two bytes)
Utf8Char(c) ==
    CASE c = "a"  -> <<97>>  [] c = "b" -> <<98>> [] c = "B" -> <<66>>
      [] c = "e'" -> <<195, 169>>
      [] c = " "  -> <<32>>  [] c = "." -> <<46>>
      [] OTHER    -> <<63>>
RECURSIVE Utf8(_)
Utf8(s) == IF s = <<>> THEN <<>> ELSE Utf8Char(Head(s)) \o Utf8(Tail(s))

\* hashlib.blake2b(data, digest_size=n).digest(): n bytes that are a function
\* of the bytes of data alone.  The library's compression function is stood in
\* for by a byte-wise mixing function.
RECURSIVE Mix(_, _)
Mix(h, data) == IF data = <<>> THEN h ELSE Mix((h * 33 + Head(data) + 1) % 256, Tail(data))
blake2b(data, n) == [i \in 1..n |-> Mix((i * 31 + Len(data)) % 256, data)]

\* int.from_bytes(digest, "big", signed=False): the digits are the bytes
from_bytes_big(digest) == digest

stable_seed(seed) == from_bytes_big(blake2b(Utf8(seed), DigestSize))

\* random.Random(n): the generator state after seeding with n, and one draw.
\* The Mersenne Twister is stood in for by a byte-wise step function.
Seeded(n)  == [i \in 1..Len(n) |-> (n[i] * 7 + i) % 256]
Step(st)   == [i \in 1..Len(st) |-> (st[i] * 5 + 2 * i + 1) % 256]
Output(st) == st[1]
RECURSIVE StepN(_, _)
StepN(st, n) == IF n = 0 THEN st ELSE StepN(Step(st), n - 1)

\* get_rng(seed): the object returned and the module-level generator after it.
\* own: a generator object of its own; otherwise the module-level one.
get_rng_seeding_global(seed, global) ==
    [ gen |-> [key |-> seed, own |-> FALSE, st |-> Seeded(stable_seed(seed)), outs |-> <<>>],
      global |-> Seeded(stable_seed(seed)) ]
get_rng(seed, global) ==
    [ gen |-> [key |-> seed, own |-> TRUE, st |-> Seeded(stable_seed(seed)), outs |-> <<>>],
      global |-> global ]

RngKeys       == {<<>>, <<"a">>, <<"a", "b">>, <<"e'">>}
GlobalSeed0   == Seeded([i \in 1..DigestSize |-> 0])

RngInit == gens = <<>> /\ globalRandom = GlobalSeed0 /\ draws = 0

\* some caller asks for a generator
GetRng(key) ==
    /\ Len(gens) < MaxGens
    /\ \E r \in {get_rng(key, globalRandom)} :
         /\ gens' = Append(gens, r.gen)
         /\ globalRandom' = r.global
    /\ UNCHANGED draws

\* the holder of generator i draws from it
Draw(i) ==
    /\ i \in 1..Len(gens)
    /\ Len(gens[i].outs) < MaxDraws
    /\ IF gens[i].own
       THEN /\ gens' = [gens EXCEPT ![i].st = Step(@),
                                    ![i].outs = Append(@, Output(Step(gens[i].st)))]
            /\ UNCHANGED globalRandom
       ELSE /\ gens' = [gens EXCEPT ![i].outs = Append(@, Output(Step(globalRandom)))]
            /\ globalRandom' = Step(globalRandom)
    /\ UNCHANGED draws

\* other code draws from the module-level generator (random.random())
GlobalDraw ==
    /\ draws < MaxDraws
    /\ globalRandom' = Step(globalRandom)
    /\ draws' = draws + 1
    /\ UNCHANGED gens

\* the holder drops its newest generator
DropRng ==
    /\ gens # <<>>
    /\ gens' = SubSeq(gens, 1, Len(gens) - 1)
    /\ UNCHANGED <<globalRandom, draws>>

(***************************** morphology.py ********************************)
\* the enumerations, each member with its value (the short code)
CaseValue == [ NOMINATIVE |-> <<"n","o","m">>, ACCUSATIVE |-> <<"a","c","c">>,
               GENITIVE |-> <<"g","e","n">>, DATIVE |-> <<"d","a","t">>,
               LOCATIVE |-> <<"l","o","c">>, INSTRUMENTAL |-> <<"i","n","s">> ]
AspectValue == [ PERFECTIVE |-> <<"p","f","v">>, IMPERFECTIVE |-> <<"i","p","f","v">>,
                 ITERATIVE |-> <<"i","t","e","r">> ]
EvidentialityValue == [ DIRECT |-> <<"d","i","r">>, HEARSAY |-> <<"h","e","a","r">>,
                        INFERENTIAL |-> <<"i","n","f">>, ASSUMPTIVE |-> <<"a","s","s","m">> ]
NumberValue == [ SINGULAR |-> <<"s","g">>, PLURAL |-> <<"p","l">>,
                 COLLECTIVE |-> <<"c","o","l">> ]
TenseValue == [ PAST |-> <<"p","s","t">>, PRESENT |-> <<"p","r","s">>,
                FUTURE |-> <<"f","u","t">>, GNOMIC |-> <<"g","n","o","m">> ]
Case          == DOMAIN CaseValue
Aspect        == DOMAIN AspectValue
Evidentiality == DOMAIN EvidentialityValue
Number        == DOMAIN NumberValue
Tense         == DOMAIN TenseValue

FRONT_VOWELS == { "JA", "JAE", "JYA", "JYAE", "JE", "JYEO", "JYE",
                  "e", "e'", "i", "i'", "o:", "o=", "u:", "u=" }
BACK_VOWELS  == { "JEO", "JO", "JWA", "JWAE", "JOE", "JYO", "JU", "JWEO", "JWE", "JWI",
                  "JYU", "JEU", "JYI", "JI", "a", "a'", "o", "o'", "u", "u'" }

\* vowels_found.count(which) for the list built by the loop of lines 64-69
RECURSIVE CountVowels(_, _)
CountVowels(word, which) ==
    IF word = <<>> THEN 0
    ELSE LET found == IF Head(word) \in FRONT_VOWELS THEN "front"
                      ELSE IF Head(word) \in BACK_VOWELS THEN "back" ELSE "none"
         IN  (IF found = which THEN 1 ELSE 0) + CountVowels(Tail(word), which)

\* a tie classed front: the comparison written >=
get_vowel_harmony_tie_front(word) ==
    IF CountVowels(Lower(word), "front") + CountVowels(Lower(word), "back") = 0 THEN "back"
    ELSE IF CountVowels(Lower(word), "front") >= CountVowels(Lower(word), "back")
         THEN "front" ELSE "back"
get_vowel_harmony(word) ==
    IF CountVowels(Lower(word), "front") + CountVowels(Lower(word), "back") = 0 THEN "back"
    ELSE IF CountVowels(Lower(word), "front") > CountVowels(Lower(word), "back")
         THEN "front" ELSE "back"

CASE_SUFFIXES ==
    [ NOMINATIVE   |-> [front |-> <<>>, back |-> <<>>],
      ACCUSATIVE   |-> [front |-> <<"-","e","l/">>, back |-> <<"-","o","l/">>],
      GENITIVE     |-> [front |-> <<"-","n","e","k">>, back |-> <<"-","n","o","k">>],
      DATIVE       |-> [front |-> <<"-","r","e">>, back |-> <<"-","r","a">>],
      LOCATIVE     |-> [front |-> <<"-","b","e","n">>, back |-> <<"-","b","a","n">>],
      INSTRUMENTAL |-> [front |-> <<"-","v","e","l">>, back |-> <<"-","v","a","l">>] ]
\* NUMBER_SUFFIXES: SINGULAR maps to the plain string "", the others to a dict
NUMBER_SUFFIXES ==
    [ SINGULAR   |-> [front |-> <<>>, back |-> <<>>],
      PLURAL     |-> [front |-> <<"-","e","k">>, back |-> <<"-","o","k">>],
      COLLECTIVE |-> [front |-> <<"-","s","e'","g">>, back |-> <<"-","s","a'","g">>] ]
ASPECT_SUFFIXES ==
    [ PERFECTIVE   |-> [front |-> <<"-","m","e","l/">>, back |-> <<"-","m","o","l/">>],
      IMPERFECTIVE |-> [front |-> <<"-","i'","s","z">>, back |-> <<"-","a'","s","z">>],
      ITERATIVE    |-> [front |-> <<"-","g","e'","l/">>, back |-> <<"-","g","a'","l/">>] ]
EVIDENTIALITY_SUFFIXES ==
    [ DIRECT      |-> [front |-> <<"-","d","e'","l/">>, back |-> <<"-","d","a'","l/">>],
      HEARSAY     |-> [front |-> <<"-","k","e'","l/">>, back |-> <<"-","k","a'","l/">>],
      INFERENTIAL |-> [front |-> <<"-","t","e'","l/">>, back |-> <<"-","t","a'","l/">>],
      ASSUMPTIVE  |-> [front |-> <<"-","v","e'","l/">>, back |-> <<"-","v","a'","l/">>] ]
TENSE_SUFFIXES ==
    [ PAST    |-> [front |-> <<"-","e","c'">>, back |-> <<"-","a","c'">>],
      PRESENT |-> [front |-> <<"-","e","s","z">>, back |-> <<"-","a","s","z">>],
      FUTURE  |-> [front |-> <<"-","e'","s","z">>, back |-> <<"-","a'","s","z">>],
      GNOMIC  |-> [front |-> <<"-","i'","m">>, back |-> <<"-","a'","m">>] ]
DERIVATIONAL_SUFFIXES ==
    [ agent        |-> [front |-> <<"-","e'","s","z">>, back |-> <<"-","a'","s","z">>],
      instrument   |-> [front |-> <<"-","e'","n","y">>, back |-> <<"-","a'","n","y">>],
      abstract     |-> [front |-> <<"-","s","e'","g">>, back |-> <<"-","s","a'","g">>],
      diminutive   |-> [front |-> <<"-","k","a">>, back |-> <<"-","k","o">>],
      augmentative |-> [front |-> <<"-","u'","l/">>, back |-> <<"-","u'","l/">>],
      verbal_noun  |-> [front |-> <<"-","e'","s","i'">>, back |-> <<"-","a'","s","i'">>] ]

\* "-".join(parts)
RECURSIVE Join(_)
Join(parts) ==
    IF parts = <<>> THEN <<>>
    ELSE IF Len(parts) = 1 THEN parts[1]
    ELSE parts[1] \o <<"-">> \o Join(Tail(parts))

MorphemeBundle(case, number, aspect, evidentiality, tense, derivations) ==
    [ case |-> case, number |-> number, aspect |-> aspect,
      evidentiality |-> evidentiality, tense |-> tense, derivations |-> derivations ]

InflectedWord(root, morphemes, surface_form, gloss, pos) ==
    [ root |-> root, morphemes |-> morphemes, surface_form |-> surface_form,
      gloss |-> gloss, pos |-> pos ]

\* the case suffix appended before the number suffix
inflect_noun_case_first(root, case, number) ==
    LET harmony == get_vowel_harmony(root)
        s1 == IF case # "NOMINATIVE" THEN root \o CASE_SUFFIXES[case][harmony] ELSE root
        s2 == IF number # "SINGULAR" THEN s1 \o NUMBER_SUFFIXES[number][harmony] ELSE s1
        g  == <<root>> \o (IF number # "SINGULAR" THEN <<NumberValue[number]>> ELSE <<>>)
                       \o (IF case # "NOMINATIVE" THEN <<CaseValue[case]>> ELSE <<>>)
    IN  InflectedWord(root, MorphemeBundle(case, number, "None", "None", "None", <<>>),
                      s2, Join(g), "noun")

inflect_noun(root, case, number) ==
    LET harmony == get_vowel_harmony(root)
        \* add number suffix first
        s1 == IF number # "SINGULAR" THEN root \o NUMBER_SUFFIXES[number][harmony] ELSE root
        \* add case suffix
        s2 == IF case # "NOMINATIVE" THEN s1 \o CASE_SUFFIXES[case][harmony] ELSE s1
        g  == <<root>> \o (IF number # "SINGULAR" THEN <<NumberValue[number]>> ELSE <<>>)
                       \o (IF case # "NOMINATIVE" THEN <<CaseValue[case]>> ELSE <<>>)
    IN  InflectedWord(root, MorphemeBundle(case, number, "None", "None", "None", <<>>),
                      s2, Join(g), "noun")

inflect_verb(root, tense, aspect, evidentiality) ==
    LET harmony == get_vowel_harmony(root)
        s1 == root \o ASPECT_SUFFIXES[aspect][harmony]
        s2 == s1 \o TENSE_SUFFIXES[tense][harmony]
        s3 == IF evidentiality # "None"
              THEN s2 \o EVIDENTIALITY_SUFFIXES[evidentiality][harmony] ELSE s2
        g  == <<root, AspectValue[aspect], TenseValue[tense]>>
              \o (IF evidentiality # "None" THEN <<EvidentialityValue[evidentiality]>>
                  ELSE <<>>)
    IN  InflectedWord(root, MorphemeBundle("None", "None", aspect, evidentiality, tense, <<>>),
                      s3, Join(g), "verb")

\* the name of a derivation type, as the characters of the string
DerivationName ==
    [ agent |-> <<"a","g","e","n","t">>,
      instrument |-> <<"i","n","s","t","r","u","m","e","n","t">>,
      abstract |-> <<"a","b","s","t","r","a","c","t">>,
      diminutive |-> <<"d","i","m","i","n","u","t","i","v","e">>,
      augmentative |-> <<"a","u","g","m","e","n","t","a","t","i","v","e">>,
      verbal_noun |-> <<"v","e","r","b","a","l","_","n","o","u","n">> ]

\* an unknown derivation type quietly replaced by the first one of the table
derive_word_default_agent(root, derivation_type, pos) ==
    LET dt == IF derivation_type \in DOMAIN DERIVATIONAL_SUFFIXES THEN derivation_type
              ELSE "agent"
    IN  [ raised |-> "none",
          word |-> << InflectedWord(root,
                        MorphemeBundle("None", "None", "None", "None", "None", <<dt>>),
                        root \o DERIVATIONAL_SUFFIXES[dt][get_vowel_harmony(root)],
                        root \o <<"-">> \o DerivationName[dt],
                        IF dt \in {"agent", "instrument", "verbal_noun", "abstract"}
                        THEN "noun" ELSE pos) >> ]

\* derive_word(root, derivation_type, pos): [raised, word]
derive_word(root, derivation_type, pos) ==
    IF derivation_type \notin DOMAIN DERIVATIONAL_SUFFIXES
    THEN [ raised |-> "ValueError", word |-> <<>> ]
    ELSE LET harmony == get_vowel_harmony(root)
             suffix  == DERIVATIONAL_SUFFIXES[derivation_type][harmony]
             new_pos == IF derivation_type \in {"agent", "instrument", "verbal_noun", "abstract"}
                        THEN "noun" ELSE pos
         IN  [ raised |-> "none",
               word |-> << InflectedWord(root,
                             MorphemeBundle("None", "None", "None", "None", "None",
                                            <<derivation_type>>),
                             root \o suffix,
                             root \o <<"-">> \o DerivationName[derivation_type],
                             new_pos) >> ]

\* derive(root, derivation_type): a new processor's derive_word with pos left
\* at its default; the caller receives word[1].surface_form, or the exception
derive(root, derivation_type) == derive_word(root, derivation_type, "noun")

(***************************** the inflector's callers **********************)
RootAlphabet    == {"e'", "a", "z", "E"}
Roots           == SeqsUpTo(RootAlphabet, MaxRoot)
DerivationTypes == DOMAIN DERIVATIONAL_SUFFIXES \cup {"plural"}
NoMCall == [ op |-> "none", root |-> <<>>, case |-> "None", number |-> "None",
             tense |-> "None", aspect |-> "None", evidentiality |-> "None",
             derivation_type |-> "None", pos |-> "None" ]
NoMWord == [ raised |-> "none", word |-> <<>>, harmony |-> "none" ]

MorIdle == mphase = "idle" /\ mcall = NoMCall /\ mword = NoMWord

InflectNoun(root, case, number) ==
    /\ mphase = "idle"
    /\ mcall' = [NoMCall EXCEPT !.op = "inflect_noun", !.root = root, !.case = case,
                                !.number = number]
    /\ mword' = [ raised |-> "none", word |-> <<inflect_noun(root, case, number)>>,
                  harmony |-> get_vowel_harmony(root) ]
    /\ mphase' = "done"

InflectVerb(root, tense, aspect, evidentiality) ==
    /\ mphase = "idle"
    /\ mcall' = [NoMCall EXCEPT !.op = "inflect_verb", !.root = root, !.tense = tense,
                                !.aspect = aspect, !.evidentiality = evidentiality]
    /\ mword' = [ raised |-> "none",
                  word |-> <<inflect_verb(root, tense, aspect, evidentiality)>>,
                  harmony |-> get_vowel_harmony(root) ]
    /\ mphase' = "done"

DeriveWord(root, derivation_type, pos) ==
    /\ mphase = "idle"
    /\ mcall' = [NoMCall EXCEPT !.op = "derive_word", !.root = root,
                                !.derivation_type = derivation_type, !.pos = pos]
    /\ \E r \in {derive_word(root, derivation_type, pos)} :
         mword' = [ raised |-> r.raised, word |-> r.word,
                    harmony |-> IF r.raised = "none" THEN get_vowel_harmony(root)
                                ELSE "none" ]
    /\ mphase' = "done"

Derive(root, derivation_type) ==
    /\ mphase = "idle"
    /\ mcall' = [NoMCall EXCEPT !.op = "derive", !.root = root,
                                !.derivation_type = derivation_type, !.pos = "noun"]
    /\ \E r \in {derive(root, derivation_type)} :
         mword' = [ raised |-> r.raised, word |-> r.word,
                    harmony |-> IF r.raised = "none" THEN get_vowel_harmony(root)
                                ELSE "none" ]
    /\ mphase' = "done"

\* the caller drops the word
MorReturn ==
    /\ mphase = "done"
    /\ mphase' = "idle" /\ mcall' = NoMCall /\ mword' = NoMWord

(***************************** the orchestrator's callers *******************)
Texts         == {PyStr(s) : s \in SeqsUpTo(Alphabet, MaxLen)} \cup {PyNone, PyInt(0), PyInt(5)}
\* what a caller of translate_sentence passes: one sentence, or no string
SentenceTexts == {PyStr(s) : s \in SeqsUpTo(Alphabet, 2)} \cup {PyNone, PyInt(0), PyInt(5)}
OtherTexts    == {PyStr(<<"B">>), PyStr(<<>>)}
MirrorRates   == {80, 150}                 \* mirror_rate in hundredths
MaxParts      == (MaxLen + 1) \div 2       \* most sentences a text can hold
\* what is installed: everything, or all but one piece, or nothing
AllOk == [ts |-> TRUE, ch |-> TRUE, tr |-> "present"]
Envs  == { AllOk, [AllOk EXCEPT !.ts = FALSE], [AllOk EXCEPT !.ch = FALSE],
           [AllOk EXCEPT !.tr = "noimport"], [AllOk EXCEPT !.tr = "absent"],
           [AllOk EXCEPT !.tr = "raises"],
           [ts |-> FALSE, ch |-> FALSE, tr |-> "noimport"] }

NoCall == [api |-> "none", text |-> PyNone, mirror_rate |-> 0, engine |-> "core"]
NoOut  == [raised |-> "none", recs |-> <<>>]
NoPrev == [has |-> FALSE, raised |-> "none", recs |-> <<>>]

\* the outcomes of the model loads a call may attempt: the index of the
\* sentence whose attempt succeeds, 0 when none does
LoadChoices(engine) == IF engine = "transformer" THEN 0..MaxParts ELSE {0}

Run(c, model, e, loadAt) ==
    IF c.api = "translate_text"
    THEN translate_text(c.text, c.mirror_rate, c.engine, "None", model, e, loadAt)
    ELSE translate_sentence(c.text, c.mirror_rate, c.engine, "None", model, e, loadAt = 1)

TrInit ==
    /\ phase = "idle" /\ cur = NoCall /\ out = NoOut /\ prev = NoPrev /\ ghost = <<>>
    /\ MODEL = "None"
    /\ env \in Envs

\* a caller invokes translate_text or translate_sentence
Call(api, text, mirror_rate, engine, loadAt) ==
    /\ phase = "idle"
    /\ LET c == [api |-> api, text |-> text, mirror_rate |-> mirror_rate, engine |-> engine]
       IN  \E res \in {Run(c, MODEL, env, loadAt)} :
             /\ cur' = c
             /\ out' = [raised |-> res.raised, recs |-> res.recs]
             /\ ghost' = res.gh
             /\ MODEL' = res.model
    /\ prev' = NoPrev
    /\ phase' = "done"
    /\ UNCHANGED env

\* the same call is made again
Repeat(loadAt) ==
    /\ phase = "done"
    /\ ~prev.has
    /\ \E res \in {Run(cur, MODEL, env, loadAt)} :
         /\ out' = [raised |-> res.raised, recs |-> res.recs]
         /\ ghost' = res.gh
         /\ MODEL' = res.model
    /\ prev' = [has |-> TRUE, raised |-> out.raised, recs |-> out.recs]
    /\ UNCHANGED <<phase, cur, env>>

\* another caller's call runs in between; its result goes to that caller
OtherCall(text, engine, loadAt) ==
    /\ phase = "done"
    /\ ~prev.has
    /\ LET c == [api |-> "translate_text", text |-> text, mirror_rate |-> 80, engine |-> engine]
       IN  MODEL' = Run(c, MODEL, env, loadAt).model
    /\ UNCHANGED <<phase, cur, out, prev, ghost, env>>

\* the caller drops the result
Return ==
    /\ phase = "done"
    /\ phase' = "idle" /\ cur' = NoCall /\ out' = NoOut /\ prev' = NoPrev /\ ghost' = <<>>
    /\ UNCHANGED <<MODEL, env>>


(***************************** phonology.py *********************************)
\* Letters outside ASCII: "a," "e," ogonek; "z." z with dot; "s'" "z'" "n'"
\* "c'" acute; "l/" stroke; "eng" the velar nasal; H.. a Hangul initial
\* consonant, J.. a Hangul vowel, T.. a Hangul final consonant.
\* A consonant is the string of its characters: sz is <<"s", "z">>.
LATIN_CONSONANTS ==
    { <<"p">>, <<"b">>, <<"t">>, <<"d">>, <<"k">>, <<"g">>, <<"f">>, <<"v">>, <<"s">>,
      <<"z">>, <<"s'">>, <<"z'">>, <<"s", "z">>, <<"z.">>, <<"h">>, <<"c", "h">>,
      <<"m">>, <<"n">>, <<"n'">>, <<"l">>, <<"l/">>, <<"r">>, <<"c">>, <<"d", "z">>,
      <<"c'">>, <<"d", "z'">>, <<"c", "z">>, <<"d", "z.">> }
HANGUL_CONSONANTS ==
    { <<"Hg">>, <<"Hgg">>, <<"Hd">>, <<"Hdd">>, <<"Hb">>, <<"Hbb">>, <<"Hs">>, <<"Hss">>,
      <<"Hh">>, <<"Hn">>, <<"Hm">>, <<"Hng">>, <<"Hr">>, <<"Hj">>, <<"Hjj">>, <<"Hch">>,
      <<"Hk">>, <<"Ht">>, <<"Hp">> }
HANGUL_VOWELS ==
    { "JA", "JAE", "JYA", "JYAE", "JEO", "JE", "JYEO", "JYE", "JO", "JWA", "JWAE", "JOE",
      "JYO", "JU", "JWEO", "JWE", "JWI", "JYU", "JEU", "JYI", "JI" }
LATIN_VOWELS == { "a", "a,", "e", "e,", "i", "o", "o'", "u", "y" }
\* the keys of HANGUL_CODAS other than the empty string
HANGUL_CODAS ==
    { <<"Tg">>, <<"Tgg">>, <<"Tgs">>, <<"Tn">>, <<"Tnj">>, <<"Tnh">>, <<"Td">>, <<"Tl">>,
      <<"Tlg">>, <<"Tlm">>, <<"Tlb">>, <<"Tls">>, <<"Tlt">>, <<"Tlp">>, <<"Tlh">>,
      <<"Tm">>, <<"Tb">>, <<"Tbs">>, <<"Ts">>, <<"Tss">>, <<"Tng">>, <<"Tj">>, <<"Tch">>,
      <<"Tk">>, <<"Tt">>, <<"Tp">>, <<"Th">> }
\* the list codas of the Latin branch (line 405)
LatinCodas == { <<"n">>, <<"m">>, <<"l">>, <<"r">>, <<"t">>, <<"k">>, <<"p">> }

\* _build_phonotactic_rules
valid_onsets ==
    { << <<"s">>, <<"p">> >>, << <<"s">>, <<"t">> >>, << <<"s">>, <<"k">> >>,
      << <<"s'">>, <<"p">> >>, << <<"s'">>, <<"t">> >>,
      << <<"s", "z">>, <<"p">> >>, << <<"s", "z">>, <<"t">> >>, << <<"s", "z">>, <<"k">> >>,
      << <<"s", "z">>, <<"c'">> >>,
      << <<"p">>, <<"r">> >>, << <<"b">>, <<"r">> >>, << <<"t">>, <<"r">> >>,
      << <<"d">>, <<"r">> >>, << <<"k">>, <<"r">> >>, << <<"g">>, <<"r">> >>,
      << <<"p">>, <<"l/">> >>, << <<"b">>, <<"l/">> >>, << <<"k">>, <<"l/">> >>,
      << <<"g">>, <<"l/">> >>,
      << <<"f">>, <<"r">> >>, << <<"c", "h">>, <<"r">> >>,
      << <<"Hg">>, <<"Hr">> >>, << <<"Hb">>, <<"Hr">> >>, << <<"Hd">>, <<"Hr">> >> }
valid_codas ==
    { << <<"n">> >>, << <<"m">> >>, << <<"eng">> >>, << <<"l">> >>, << <<"r">> >>,
      << <<"t">> >>, << <<"k">> >>, << <<"p">> >>,
      << <<"n">>, <<"t">> >>, << <<"m">>, <<"p">> >>, << <<"eng">>, <<"k">> >>,
      << <<"l">>, <<"t">> >>,
      << <<"Tn">> >>, << <<"Tm">> >>, << <<"Tl">> >>, << <<"Tg">> >>, << <<"Td">> >>,
      << <<"Tb">> >> }

Syllable(onset, nucleus, coda) == [onset |-> onset, nucleus |-> nucleus, coda |-> coda]

is_valid_syllable(syllable) ==
    IF Len(syllable.onset) > 1 /\ syllable.onset \notin valid_onsets THEN FALSE
    ELSE IF Len(syllable.coda) > 1 /\ syllable.coda \notin valid_codas THEN FALSE
    ELSE syllable.nucleus # <<>>

\* re.sub(r"([first])([second])", rep + r"\2", word)
RECURSIVE ReSubPair(_, _, _, _)
ReSubPair(word, first, second, rep) ==
    IF Len(word) < 2 THEN word
    ELSE IF word[1] \in first /\ word[2] \in second
         THEN <<rep, word[2]>> \o ReSubPair(SubSeq(word, 3, Len(word)), first, second, rep)
         ELSE <<word[1]>> \o ReSubPair(Tail(word), first, second, rep)

_voice_assimilation(word) ==
    ReSubPair(ReSubPair(word, {"b", "d", "g"}, {"p", "t", "k"}, "p"),
              {"p", "t", "k"}, {"b", "d", "g"}, "b")

_nasal_assimilation(word) ==
    ReSubPair(ReSubPair(word, {"n"}, {"p", "k"}, "m"), {"n"}, {"k", "g"}, "eng")

\* str.replace(old, new) for a one-character old
RECURSIVE Replace(_, _, _)
Replace(word, old, new) ==
    IF word = <<>> THEN <<>>
    ELSE (IF Head(word) = old THEN new ELSE <<Head(word)>>) \o Replace(Tail(word), old, new)
\* sub in word
HasSub(word, sub) == \E i \in 0..(Len(word) - Len(sub)) : SubSeq(word, i + 1, i + Len(sub)) = sub

_sibilant_harmony(word) ==
    IF HasSub(word, <<"s", "z">>) \/ HasSub(word, <<"z.">>)
    THEN Replace(Replace(word, "s", <<"s", "z">>), "z", <<"z.">>)
    ELSE word

\* the class [bcdfghjklmnpqrstvwxyz]
DeletionConsonants ==
    { "b", "c", "d", "f", "g", "h", "j", "k", "l", "m", "n", "p", "q", "r", "s", "t", "v",
      "w", "x", "y", "z" }
RECURSIVE _vowel_deletion(_)
_vowel_deletion(word) ==
    IF Len(word) < 3 THEN word
    ELSE IF word[1] \in DeletionConsonants /\ word[2] \in {"a", "e", "i", "o", "u"}
            /\ word[3] = word[1]
         THEN <<word[1], word[1]>> \o _vowel_deletion(SubSeq(word, 4, Len(word)))
         ELSE <<word[1]>> \o _vowel_deletion(Tail(word))

RECURSIVE _consonant_cluster_simplification(_)
_consonant_cluster_simplification(word) ==
    IF Len(word) < 3 THEN word
    ELSE IF word[1] \in {"p", "t", "k"} /\ word[2] \in {"s", "z"} /\ word[3] \in {"p", "t", "k"}
         THEN <<word[1], word[3]>> \o _consonant_cluster_simplification(SubSeq(word, 4, Len(word)))
         ELSE <<word[1]>> \o _consonant_cluster_simplification(Tail(word))

RECURSIVE _epenthesis(_)
_epenthesis(word) ==
    IF Len(word) < 3 THEN word
    ELSE IF word[1] \in {"s", "z"} /\ word[2] \in {"p", "t", "k"}
            /\ word[3] \notin {"a", "e", "i", "o", "u", "a,", "e,"}
         THEN <<word[1], "e", word[2], word[3]>> \o _epenthesis(SubSeq(word, 4, Len(word)))
         ELSE <<word[1]>> \o _epenthesis(Tail(word))

apply_sound_changes(word) ==
    _epenthesis(_consonant_cluster_simplification(_vowel_deletion(
        _sibilant_harmony(_nasal_assimilation(_voice_assimilation(word))))))

\* "".join(parts)
RECURSIVE JoinAll(_)
JoinAll(parts) == IF parts = <<>> THEN <<>> ELSE Head(parts) \o JoinAll(Tail(parts))

\* One pass of the loop of generate_phonological_word (lines 369-410) under the
\* draws d of the generator: d.use_hangul, d.has_onset, d.try_second and
\* d.has_coda are the outcomes of the four rng.random() tests, d.c1, d.c2,
\* d.nucleus and d.coda those of the rng.choice calls.
\* the second consonant appended without looking the pair up
OnsetUnchecked(d) ==
    IF ~d.has_onset THEN <<>>
    ELSE IF d.try_second THEN <<d.c1, d.c2>> ELSE <<d.c1>>
Onset(d) ==
    IF ~d.has_onset THEN <<>>
    ELSE IF d.try_second /\ <<d.c1, d.c2>> \in valid_onsets THEN <<d.c1, d.c2>>
    ELSE <<d.c1>>
AssembleSyllable(d) ==
    Syllable(Onset(d), <<d.nucleus>>, IF d.has_coda THEN <<d.coda>> ELSE <<>>)

SyllableString(syll) == JoinAll(syll.onset) \o syll.nucleus \o JoinAll(syll.coda)
RECURSIVE WordOf(_)
WordOf(syllables) ==
    IF syllables = <<>> THEN <<>> ELSE SyllableString(Head(syllables)) \o WordOf(Tail(syllables))

\* SelectSeq(assembled, is_valid_syllable)
RECURSIVE ValidOnes(_)
ValidOnes(assembled) ==
    IF assembled = <<>> THEN <<>>
    ELSE (IF is_valid_syllable(Head(assembled)) THEN <<Head(assembled)>> ELSE <<>>)
         \o ValidOnes(Tail(assembled))

\* generate_phonological_word(semantic_seed, syllable_count).  A semantic seed
\* is written as the draws that get_rng("phon:" + seed) yields, syllable by
\* syllable: utils/rng.py makes them a function of the seed alone.
generate_phonological_word(semantic_seed, syllable_count) ==
    LET assembled == [i \in 1..syllable_count |-> AssembleSyllable(semantic_seed[i])]
        syllables == ValidOnes(assembled)
    IN  [ assembled |-> assembled, syllables |-> syllables,
          word |-> apply_sound_changes(WordOf(syllables)) ]

(***************************** the phonology's callers **********************)
\* the outcomes of rng.choice that the callers' seeds produce
DrawnLatin  == { <<"s">>, <<"t">>, <<"s", "z">> }
DrawnHangul == { <<"Hg">>, <<"Hr">> }
NoDraw      == <<"-">>
OnsetDraws(cs) ==
    { [has_onset |-> FALSE, c1 |-> NoDraw, try_second |-> FALSE, c2 |-> NoDraw] }
    \cup { [has_onset |-> TRUE, c1 |-> c, try_second |-> FALSE, c2 |-> NoDraw] : c \in cs }
    \cup { [has_onset |-> TRUE, c1 |-> c, try_second |-> TRUE, c2 |-> c2] : c \in cs, c2 \in cs }
CodaDraws(cs) ==
    { [has_coda |-> FALSE, coda |-> NoDraw] } \cup { [has_coda |-> TRUE, coda |-> c] : c \in cs }
DrawsOfScript(hangul, cs, vs, codas) ==
    { [ use_hangul |-> hangul, has_onset |-> o.has_onset, c1 |-> o.c1,
        try_second |-> o.try_second, c2 |-> o.c2, nucleus |-> v,
        has_coda |-> c.has_coda, coda |-> c.coda ] :
      o \in OnsetDraws(cs), v \in vs, c \in CodaDraws(codas) }
SyllableDraws ==
    DrawsOfScript(FALSE, DrawnLatin, {"a"}, {<<"t">>})
    \cup DrawsOfScript(TRUE, DrawnHangul, {"JA"}, {})
SeqsOfLen(S, n) == {q \in SeqsUpTo(S, n) : Len(q) = n}
PhonSeeds   == SeqsOfLen(SyllableDraws, MaxSyll)
SoundChars  == {"s", "z", "t", "b", "a", "n", "k"}
SoundWords  == SeqsUpTo(SoundChars, MaxWord)

NoPCall == [op |-> "none", seed |-> <<>>, count |-> 0, word |-> <<>>]
NoPOut  == [assembled |-> <<>>, syllables |-> <<>>, word |-> <<>>]
NoPPrev == [has |-> FALSE, word |-> <<>>]
PhonIdle == pphase = "idle" /\ pcall = NoPCall /\ pout = NoPOut /\ pprev = NoPPrev

GeneratePhonWord(seed, count) ==
    /\ pphase = "idle"
    /\ pcall' = [NoPCall EXCEPT !.op = "generate_phonological_word", !.seed = seed,
                                !.count = count]
    /\ pout' = generate_phonological_word(seed, count)
    /\ pprev' = NoPPrev
    /\ pphase' = "done"

\* the same word is asked for again
RepeatPhonWord ==
    /\ pphase = "done" /\ pcall.op = "generate_phonological_word" /\ ~pprev.has
    /\ pout' = generate_phonological_word(pcall.seed, pcall.count)
    /\ pprev' = [has |-> TRUE, word |-> pout.word]
    /\ UNCHANGED <<pphase, pcall>>

ApplySoundChanges(word) ==
    /\ pphase = "idle"
    /\ pcall' = [NoPCall EXCEPT !.op = "apply_sound_changes", !.word = word]
    /\ pout' = [NoPOut EXCEPT !.word = apply_sound_changes(word)]
    /\ pprev' = NoPPrev
    /\ pphase' = "done"

\* the caller drops the word
PhonReturn ==
    /\ pphase = "done"
    /\ pphase' = "idle" /\ pcall' = NoPCall /\ pout' = NoPOut /\ pprev' = NoPPrev

(***************************** embeddings.py ********************************)
\* _lazy_load_model(): [model, dim] after the call.  lib: whether
\* sentence_transformers can be imported in this process; loads: whether the
\* construction of the model and the reading of its dimension succeed now.
_lazy_load_model(model, dim, lib, loads) ==
    IF model # "None" THEN [model |-> model, dim |-> dim]
    ELSE IF lib # "absent" /\ loads THEN [model |-> "loaded", dim |-> EncoderDim]
    ELSE [model |-> "None", dim |-> 0]

\* A vector is written as what it was computed from: the backend, the text
\* and its length; padded: the tail was drawn from a generator seeded by the text.
Vector(backend, text, dim, padded) ==
    [backend |-> backend, text |-> text, dim |-> dim, padded |-> padded]

\* embed_text(text, dim): [vector, model, dim]
embed_text(text, dim, model, mdim, lib, loads) ==
    LET m == _lazy_load_model(model, mdim, lib, loads)
        t == OrEmpty(text).s
    IN  IF m.model # "None" /\ lib # "raises"
        THEN [ vector |-> Vector("encoder", t, dim, EncoderDim < dim),
               model |-> m.model, dim |-> m.dim ]
        ELSE [ vector |-> Vector("hash", t, dim, FALSE), model |-> m.model, dim |-> m.dim ]

(***************************** the embedder's callers ***********************)
EmbTexts == {PyStr(<<"a">>), PyStr(<<>>), PyNone}
EmbDims  == {1, EncoderDim + 1}
EmbLibs  == {"present", "absent", "raises"}
EmbIdle  == embModel = "None" /\ embDim = 0 /\ embLib = "present" /\ embLog = <<>>
EmbInit  == embModel = "None" /\ embDim = 0 /\ embLib \in EmbLibs /\ embLog = <<>>

EmbedText(text, dim, loads) ==
    /\ Len(embLog) < MaxEmbeds
    /\ \E r \in {embed_text(text, dim, embModel, embDim, embLib, loads)} :
         /\ embLog' = Append(embLog, r.vector)
         /\ embModel' = r.model
         /\ embDim' = r.dim
    /\ UNCHANGED embLib

(***************************** syntax.py ***********************************)
_CONTEXT_MARKERS ==
    { <<"i","n">>, <<"o","n">>, <<"a","t">>, <<"w","i","t","h">>, <<"f","r","o","m">>,
      <<"t","o">>, <<"b","y">>, <<"b","e","c","a","u","s","e">>, <<"w","h","e","n">>,
      <<"w","h","i","l","e">>, <<"a","f","t","e","r">>, <<"b","e","f","o","r","e">>, <<"i","f">>,
      <<"a","s">>, <<"d","u","r","i","n","g">>, <<"o","v","e","r">>, <<"u","n","d","e","r">>,
      <<"i","n","t","o">>, <<"o","n","t","o">>, <<"b","e","t","w","e","e","n">>,
      <<"w","i","t","h","i","n">>, <<"w","i","t","h","o","u","t">>,
      <<"a","g","a","i","n","s","t">>, <<"t","h","r","o","u","g","h">> }

_COMMON_VERBS ==
    { <<"a","m">>, <<"i","s">>, <<"a","r","e">>, <<"w","a","s">>, <<"w","e","r","e">>,
      <<"b","e">>, <<"b","e","e","n">>, <<"b","e","i","n","g">>, <<"h","a","v","e">>,
      <<"h","a","s">>, <<"h","a","d">>, <<"d","o">>, <<"d","o","e","s">>, <<"d","i","d">>,
      <<"s","a","y">>, <<"s","a","y","s">>, <<"s","a","i","d">>, <<"m","a","k","e">>,
      <<"m","a","k","e","s">>, <<"m","a","d","e">>, <<"g","o">>, <<"g","o","e","s">>,
      <<"w","e","n","t">>, <<"s","e","e">>, <<"s","e","e","s">>, <<"s","a","w">>,
      <<"k","n","o","w">>, <<"k","n","o","w","s">>, <<"k","n","e","w">>, <<"t","h","i","n","k">>,
      <<"t","h","i","n","k","s">>, <<"t","h","o","u","g","h","t">>, <<"t","a","k","e">>,
      <<"t","a","k","e","s">>, <<"t","o","o","k">>, <<"c","o","m","e">>, <<"c","o","m","e","s">>,
      <<"c","a","m","e">>, <<"w","a","n","t">>, <<"w","a","n","t","s">>,
      <<"w","a","n","t","e","d">>, <<"u","s","e">>, <<"u","s","e","s">>, <<"u","s","e","d">>,
      <<"f","i","n","d">>, <<"f","i","n","d","s">>, <<"f","o","u","n","d">>, <<"g","i","v","e">>,
      <<"g","i","v","e","s">>, <<"g","a","v","e">>, <<"t","e","l","l">>, <<"t","e","l","l","s">>,
      <<"t","o","l","d">>, <<"w","o","r","k">>, <<"w","o","r","k","s">>,
      <<"w","o","r","k","e","d">>, <<"c","a","l","l">>, <<"c","a","l","l","s">>,
      <<"c","a","l","l","e","d">>, <<"t","r","y">>, <<"t","r","i","e","s">>,
      <<"t","r","i","e","d">>, <<"a","s","k">>, <<"a","s","k","s">>, <<"a","s","k","e","d">>,
      <<"n","e","e","d">>, <<"n","e","e","d","s">>, <<"n","e","e","d","e","d">>,
      <<"f","e","e","l">>, <<"f","e","e","l","s">>, <<"f","e","l","t">>,
      <<"b","e","c","o","m","e">>, <<"b","e","c","o","m","e","s">>, <<"b","e","c","a","m","e">>,
      <<"l","e","a","v","e">>, <<"l","e","a","v","e","s">>, <<"l","e","f","t">>, <<"p","u","t">>,
      <<"p","u","t","s">>, <<"k","e","e","p">>, <<"k","e","e","p","s">>, <<"k","e","p","t">>,
      <<"l","e","t">>, <<"l","e","t","s">>, <<"b","e","g","i","n">>, <<"b","e","g","i","n","s">>,
      <<"b","e","g","a","n">>, <<"s","e","e","m">>, <<"s","e","e","m","s">>, <<"h","e","l","p">>,
      <<"h","e","l","p","s">>, <<"h","e","l","p","e","d">>, <<"t","a","l","k">>,
      <<"t","a","l","k","s">>, <<"t","a","l","k","e","d">>, <<"t","u","r","n">>,
      <<"t","u","r","n","s">>, <<"t","u","r","n","e","d">>, <<"s","t","a","r","t">>,
      <<"s","t","a","r","t","s">>, <<"s","t","a","r","t","e","d">>, <<"s","h","o","w">>,
      <<"s","h","o","w","s">>, <<"s","h","o","w","e","d">>, <<"p","l","a","y">>,
      <<"p","l","a","y","s">>, <<"p","l","a","y","e","d">>, <<"m","o","v","e">>,
      <<"m","o","v","e","s">>, <<"m","o","v","e","d">>, <<"l","i","v","e">>,
      <<"l","i","v","e","s">>, <<"l","i","v","e","d">>, <<"b","e","l","i","e","v","e">>,
      <<"b","e","l","i","e","v","e","s">>, <<"b","e","l","i","e","v","e","d">>,
      <<"b","r","i","n","g">>, <<"b","r","i","n","g","s">>, <<"b","r","o","u","g","h","t">>,
      <<"w","r","i","t","e">>, <<"w","r","i","t","e","s">>, <<"w","r","o","t","e">>,
      <<"s","i","t">>, <<"s","i","t","s">>, <<"s","a","t">>, <<"s","t","a","n","d">>,
      <<"s","t","a","n","d","s">>, <<"s","t","o","o","d">> }

\* the characters str.isalnum() accepts, among those the texts are written in
Alnum ==
    { "a", "b", "c", "d", "e", "f", "g", "h", "i", "j", "k", "l", "m", "n", "o", "p", "q",
      "r", "s", "t", "u", "v", "w", "x", "y", "z", "A", "B", "E", "O", "W",
      "0", "1", "2", "3", "4", "5", "6", "7", "8", "9" }

\* str.endswith(suffix)
endswith(s, suffix) ==
    Len(suffix) <= Len(s) /\ SubSeq(s, Len(s) - Len(suffix) + 1, Len(s)) = suffix
\* sep.join(parts)
RECURSIVE JoinWith(_, _)
JoinWith(parts, sep) ==
    IF parts = <<>> THEN <<>>
    ELSE IF Len(parts) = 1 THEN parts[1]
    ELSE parts[1] \o sep \o JoinWith(Tail(parts), sep)
\* s[a:b], indices counted from 0
Slice(s, a, b) == SubSeq(s, a + 1, IF b < Len(s) THEN b ELSE Len(s))
Least(S) == CHOOSE x \in S : \A y \in S : x <= y
min(a, b) == IF a <= b THEN a ELSE b
max(a, b) == IF a >= b THEN a ELSE b
\* x in seq
In(x, seq) == \E i \in 1..Len(seq) : seq[i] = x
\* seq.index(x), counted from 0
index(seq, x) == Least({i \in 1..Len(seq) : seq[i] = x}) - 1
\* [t.lower() for t in tokens]
LowerAll(tokens) == [i \in 1..Len(tokens) |-> Lower(tokens[i])]

\* the loop of _tokenize: buff is the word being read, done the words read
\* ("rsquo" is the right single quotation mark)
RECURSIVE TokenizeFrom(_, _, _)
TokenizeFrom(s, buff, done) ==
    IF s = <<>> THEN (IF buff # <<>> THEN Append(done, buff) ELSE done)
    ELSE IF Head(s) \in Alnum \cup {"'", "rsquo", "-"}
         THEN TokenizeFrom(Tail(s), Append(buff, Head(s)), done)
         ELSE TokenizeFrom(Tail(s), <<>>, IF buff # <<>> THEN Append(done, buff) ELSE done)
_tokenize(text) == TokenizeFrom(Strip(text), <<>>, <<>>)

_guess_plural(phrase) ==
    LET w == SplitWords(Strip(phrase)) IN
    IF w = <<>> THEN FALSE
    ELSE LET last == Lower(w[Len(w)])
         IN  /\ endswith(last, <<"s">>)
             /\ ~(endswith(last, <<"s","s">>) \/ endswith(last, <<"u","s">>) \/ endswith(last, <<"i","s">>))

\* _guess_tense with its two tests exchanged
_guess_tense_past_first(tokens, verb_idx) ==
    LET low == LowerAll(tokens)
        v == IF 0 <= verb_idx /\ verb_idx < Len(low) THEN low[verb_idx + 1] ELSE <<>>
    IN  IF endswith(v, <<"e","d">>) \/ v \in {<<"w","a","s">>, <<"w","e","r","e">>, <<"h","a","d">>, <<"d","i","d">>} THEN "past"
        ELSE IF In(<<"w","i","l","l">>, Slice(low, 0, verb_idx + 1)) THEN "future"
        ELSE "present"

_guess_tense(tokens, verb_idx) ==
    LET low == LowerAll(tokens)
        v == IF 0 <= verb_idx /\ verb_idx < Len(low) THEN low[verb_idx + 1] ELSE <<>>
    IN  IF In(<<"w","i","l","l">>, Slice(low, 0, verb_idx + 1)) THEN "future"
        ELSE IF endswith(v, <<"e","d">>) \/ v \in {<<"w","a","s">>, <<"w","e","r","e">>, <<"h","a","d">>, <<"d","i","d">>} THEN "past"
        ELSE "present"

\* the test of the loop of _find_verb on one lower-cased token
LooksLikeVerb(t) ==
    \/ t \in _COMMON_VERBS
    \/ (endswith(t, <<"e","d">>) \/ endswith(t, <<"i","n","g">>)) /\ Len(t) > 3
    \/ endswith(t, <<"s">>) /\ Len(t) > 3 /\ SubSeq(t, 1, Len(t) - 1) \in _COMMON_VERBS

\* _find_verb with its first two rules exchanged
_find_verb_verb_list_first(tokens) ==
    LET low == LowerAll(tokens)
        hits == {i \in 0..(Len(low) - 1) : LooksLikeVerb(low[i + 1])}
    IN  IF hits # {} THEN Least(hits)
        ELSE IF In(<<"w","i","l","l">>, low) /\ index(low, <<"w","i","l","l">>) + 1 < Len(tokens)
        THEN index(low, <<"w","i","l","l">>) + 1
        ELSE max(0, min(Len(tokens) - 1, Len(tokens) \div 2))

\* _find_verb(tokens): the index of the verb, counted from 0
_find_verb(tokens) ==
    LET low == LowerAll(tokens)
        hits == {i \in 0..(Len(low) - 1) : LooksLikeVerb(low[i + 1])}
    IN  IF In(<<"w","i","l","l">>, low) /\ index(low, <<"w","i","l","l">>) + 1 < Len(tokens)
        THEN index(low, <<"w","i","l","l">>) + 1
        ELSE IF hits # {} THEN Least(hits)
        ELSE max(0, min(Len(tokens) - 1, Len(tokens) \div 2))

ParsedSentence(subject, verb, obj, context, tense, subj_plural, obj_plural) ==
    [ subject |-> subject, verb |-> verb, obj |-> obj, context |-> context,
      tense |-> tense, subj_plural |-> subj_plural, obj_plural |-> obj_plural ]

parse_english(text) ==
    LET tokens == _tokenize(text) IN
    IF tokens = <<>> THEN ParsedSentence(<<>>, <<>>, <<>>, <<>>, "present", FALSE, FALSE)
    ELSE
    LET vidx == _find_verb(tokens)
        tense == _guess_tense(tokens, vidx)
        subj_tokens == Slice(tokens, 0, vidx)
        verb_token == IF vidx < Len(tokens) THEN tokens[vidx + 1] ELSE <<>>
        rest == IF vidx + 1 < Len(tokens) THEN Slice(tokens, vidx + 1, Len(tokens)) ELSE <<>>
        marks == {i \in 1..Len(rest) : Lower(rest[i]) \in _CONTEXT_MARKERS}
        seen_ctx == IF marks = {} THEN Len(rest) + 1 ELSE Least(marks)
        obj_tokens == SubSeq(rest, 1, seen_ctx - 1)
        ctx_tokens == SubSeq(rest, seen_ctx, Len(rest))
        subject == Strip(JoinWith(subj_tokens, <<" ">>))
        obj == Strip(JoinWith(obj_tokens, <<" ">>))
        context == Strip(JoinWith(ctx_tokens, <<" ">>))
    IN  ParsedSentence(subject, verb_token, obj, context, tense,
                       _guess_plural(subject), _guess_plural(obj))

(***************************** enhanced_syntax.py **************************)
TemporalMarkers ==
    { <<"w","h","e","n">>, <<"w","h","i","l","e">>, <<"a","f","t","e","r">>,
      <<"b","e","f","o","r","e">>, <<"d","u","r","i","n","g">> }
SpatialMarkers ==
    { <<"w","h","e","r","e">>, <<"i","n">>, <<"o","n">>, <<"a","t">>, <<"n","e","a","r">>,
      <<"w","i","t","h","i","n">>, <<"a","m","o","n","g","s","t">> }
CausalMarkers ==
    { <<"b","e","c","a","u","s","e">>, <<"s","i","n","c","e">>, <<"a","s">>,
      <<"d","u","e"," ","t","o">>, <<"c","o","n","c","e","r","n","i","n","g">>,
      <<"r","e","g","a","r","d","i","n","g">> }
ConditionalMarkers ==
    { <<"i","f">>, <<"u","n","l","e","s","s">>, <<"p","r","o","v","i","d","e","d">> }
EvidentialMarkers ==
    { <<"a","p","p","a","r","e","n","t","l","y">>, <<"r","e","p","o","r","t","e","d","l","y">> }
ModalMarkers ==
    { <<"p","o","s","s","i","b","l","y">>, <<"d","e","f","i","n","i","t","e","l","y">>,
      <<"t","h","r","o","u","g","h">>, <<"b","e","y","o","n","d">> }

\* self.context_markers after _build_context_markers: marker -> ContextType value
context_markers ==
    [ w \in TemporalMarkers \cup SpatialMarkers \cup CausalMarkers \cup ConditionalMarkers
            \cup EvidentialMarkers \cup ModalMarkers |->
        CASE w \in TemporalMarkers -> "temp"
          [] w \in SpatialMarkers -> "spat"
          [] w \in CausalMarkers -> "caus"
          [] w \in ConditionalMarkers -> "cond"
          [] w \in EvidentialMarkers -> "evid"
          [] w \in ModalMarkers -> "modal" ]

\* the characters \w matches
WordChars == Alnum \cup {"_"}
\* the length of the longest prefix of s made of \w characters
RECURSIVE WordRun(_)
WordRun(s) == IF s # <<>> /\ Head(s) \in WordChars THEN 1 + WordRun(Tail(s)) ELSE 0

\* re.findall(r"\w+(?:'\w+)?|[^\w\s]", s)
RECURSIVE FindAllTokens(_)
FindAllTokens(s) ==
    IF s = <<>> THEN <<>>
    ELSE IF Head(s) \in WordChars
    THEN LET n == WordRun(s)
             after == SubSeq(s, n + 1, Len(s))
             m == IF after # <<>> /\ Head(after) = "'" THEN WordRun(Tail(after)) ELSE 0
             e == IF m > 0 THEN n + 1 + m ELSE n
         IN  <<SubSeq(s, 1, e)>> \o FindAllTokens(SubSeq(s, e + 1, Len(s)))
    ELSE IF IsSpace(Head(s)) THEN FindAllTokens(Tail(s))
    ELSE <<<<Head(s)>>>> \o FindAllTokens(Tail(s))

PosVerbs ==
    { <<"i","s">>, <<"a","r","e">>, <<"w","a","s">>, <<"w","e","r","e">>, <<"b","e">>,
      <<"b","e","e","n">>, <<"b","e","i","n","g">>, <<"h","a","v","e">>, <<"h","a","s">>,
      <<"h","a","d">>, <<"d","o">>, <<"d","o","e","s">>, <<"d","i","d">>, <<"w","i","l","l">>,
      <<"w","o","u","l","d">>, <<"c","a","n">>, <<"c","o","u","l","d">>,
      <<"s","h","o","u","l","d">>, <<"m","a","y">>, <<"m","i","g","h","t">> }
PosPronouns ==
    { <<"i">>, <<"y","o","u">>, <<"h","e">>, <<"s","h","e">>, <<"i","t">>, <<"w","e">>,
      <<"t","h","e","y">>, <<"t","h","i","s">>, <<"t","h","a","t">>, <<"t","h","e","s","e">>,
      <<"t","h","o","s","e">> }
PosDeterminers ==
    { <<"t","h","e">>, <<"a">>, <<"a","n">>, <<"m","y">>, <<"y","o","u","r">>, <<"h","i","s">>,
      <<"h","e","r">>, <<"i","t","s">>, <<"o","u","r">>, <<"t","h","e","i","r">> }
PosPrepositions ==
    { <<"i","n">>, <<"o","n">>, <<"a","t">>, <<"b","y">>, <<"f","o","r">>, <<"w","i","t","h">>,
      <<"f","r","o","m">>, <<"t","o">>, <<"o","f">>, <<"a","b","o","u","t">> }
AdjectiveEndings ==
    { <<"a","b","l","e">>, <<"i","b","l","e">>, <<"f","u","l">>, <<"l","e","s","s">>,
      <<"o","u","s">>, <<"i","v","e">>, <<"a","l">>, <<"i","c">> }
VerbEndings ==
    { <<"i","n","g">>, <<"e","d">>, <<"s">> }

_guess_pos(word) ==
    IF word \in PosVerbs THEN "VERB"
    ELSE IF word \in PosPronouns THEN "PRON"
    ELSE IF word \in PosDeterminers THEN "DET"
    ELSE IF word \in PosPrepositions THEN "ADP"
    ELSE IF \E x \in AdjectiveEndings : endswith(word, x) THEN "ADJ"
    ELSE IF (\E x \in VerbEndings : endswith(word, x)) /\ Len(word) > 3 THEN "VERB"
    ELSE "NOUN"

_lemmatize(word) ==
    IF endswith(word, <<"i","n","g">>) /\ Len(word) > 4 THEN SubSeq(word, 1, Len(word) - 3)
    ELSE IF endswith(word, <<"e","d">>) /\ Len(word) > 3 THEN SubSeq(word, 1, Len(word) - 2)
    ELSE IF endswith(word, <<"s">>) /\ Len(word) > 2 /\ ~endswith(word, <<"s","s">>)
         THEN SubSeq(word, 1, Len(word) - 1)
    ELSE word

_tokenize_advanced(text) ==
    LET raw_tokens == FindAllTokens(Lower(text))
    IN  [ i \in 1..Len(raw_tokens) |->
            [ word |-> raw_tokens[i], pos |-> _guess_pos(raw_tokens[i]),
              lemma |-> _lemmatize(raw_tokens[i]) ] ]

Modals ==
    { <<"w","i","l","l">>, <<"w","o","u","l","d">>, <<"c","a","n">>, <<"c","o","u","l","d">>,
      <<"s","h","o","u","l","d">>, <<"m","a","y">>, <<"m","i","g","h","t">> }

\* _find_main_verb(tokens): the index of the main verb, counted from 0
_find_main_verb(tokens) ==
    LET n == Len(tokens)
        IsVerb(k) == tokens[k + 1].pos = "VERB"
        After(i) == {j \in (i + 1)..(min(i + 3, n) - 1) : IsVerb(j)}
        aux == {i \in 0..(n - 1) : IsVerb(i) /\ tokens[i + 1].word \in Modals /\ After(i) # {}}
        mains == {i \in 0..(n - 1) : IsVerb(i) /\ tokens[i + 1].word \notin Modals}
    IN  IF aux # {} THEN Least(After(Least(aux)))
        ELSE IF mains # {} THEN Least(mains)
        ELSE n \div 2

\* the tokens of tokens[from:to] whose part of speech is in poses and, when
\* markers is FALSE, whose word is not a context marker
RECURSIVE KeepTokens(_, _, _, _, _)
KeepTokens(tokens, from, to, poses, markers) ==
    IF from >= to THEN <<>>
    ELSE LET t == tokens[from + 1]
             keep == (markers \/ t.word \notin DOMAIN context_markers) /\ t.pos \in poses
         IN  (IF keep THEN <<t>> ELSE <<>>) \o KeepTokens(tokens, from + 1, to, poses, markers)

WordsOf(tokens) == [i \in 1..Len(tokens) |-> tokens[i].word]

SyntacticNode(label, phrase_type, surface_form, case, role, dependents) ==
    [ label |-> label, phrase_type |-> phrase_type, surface_form |-> surface_form,
      case |-> case, role |-> role, dependents |-> dependents ]

\* _parse_main_clause(tokens, verb_idx), for 0 <= verb_idx < len(tokens)
_parse_main_clause(tokens, verb_idx) ==
    LET n == Len(tokens)
        verb_token == tokens[verb_idx + 1]
        subject_tokens == KeepTokens(tokens, 0, verb_idx, {"NOUN", "PRON"}, FALSE)
        marks == {i \in (verb_idx + 1)..(n - 1) : tokens[i + 1].word \in DOMAIN context_markers}
        context_start == IF marks = {} THEN n ELSE Least(marks)
        object_tokens ==
            KeepTokens(tokens, verb_idx + 1, context_start, {"NOUN", "PRON", "ADJ"}, TRUE)
        subj_node ==
            IF subject_tokens = <<>> THEN <<>>
            ELSE << SyntacticNode("NP_subj", "NP", JoinWith(WordsOf(subject_tokens), <<" ">>),
                                  "NOMINATIVE", "subj", <<>>) >>
        obj_node ==
            IF object_tokens = <<>> THEN <<>>
            ELSE << SyntacticNode("NP_obj", "NP", JoinWith(WordsOf(object_tokens), <<" ">>),
                                  "ACCUSATIVE", "dobj", <<>>) >>
    IN  SyntacticNode("VP_main", "VP", verb_token.word, "None", "None", subj_node \o obj_node)

ContextClause(content, context_type, marker) ==
    [ content |-> content, context_type |-> context_type, marker |-> marker ]

\* the loop of _parse_context_clauses from token i on
RECURSIVE ContextClausesFrom(_, _)
ContextClausesFrom(tokens, i) ==
    IF i >= Len(tokens) THEN <<>>
    ELSE IF tokens[i + 1].word \in DOMAIN context_markers
    THEN LET marker == tokens[i + 1].word
             context_type == context_markers[marker]
             stops == {k \in (i + 1)..(Len(tokens) - 1) :
                          tokens[k + 1].word \in DOMAIN context_markers}
             j == IF stops = {} THEN Len(tokens) ELSE Least(stops)
             clause_tokens == Slice(tokens, i + 1, j)
             clause ==
                 IF clause_tokens = <<>> THEN <<>>
                 ELSE << ContextClause(JoinWith(WordsOf(clause_tokens), <<" ">>),
                                       context_type, marker) >>
         IN  clause \o ContextClausesFrom(tokens, j)
    ELSE ContextClausesFrom(tokens, i + 1)
_parse_context_clauses(tokens) == ContextClausesFrom(tokens, 0)

\* the dependents of a node that have one of these roles, in their order
RECURSIVE WithRole(_, _)
WithRole(dependents, roles) ==
    IF dependents = <<>> THEN <<>>
    ELSE (IF Head(dependents).role \in roles THEN <<Head(dependents)>> ELSE <<>>)
         \o WithRole(Tail(dependents), roles)

\* SyntacticNode.linearize_sovc with the verb put before the objects
RECURSIVE linearize_svoc(_)
RECURSIVE LinearizeAllSvoc(_)
LinearizeAllSvoc(nodes) ==
    IF nodes = <<>> THEN <<>> ELSE linearize_svoc(Head(nodes)) \o LinearizeAllSvoc(Tail(nodes))
linearize_svoc(node) ==
    LinearizeAllSvoc(WithRole(node.dependents, {"subj"}))
    \o (IF node.surface_form # <<>> THEN <<node.surface_form>> ELSE <<>>)
    \o LinearizeAllSvoc(WithRole(node.dependents, {"dobj"}))
    \o LinearizeAllSvoc(WithRole(node.dependents, {"iobj"}))
    \o LinearizeAllSvoc(WithRole(node.dependents, {"obl", "adjunct", "pred", "mod", "None"}))
    \o LinearizeAllSvoc(WithRole(node.dependents, {"comp"}))

\* SyntacticNode.linearize_sovc(): the list of the phrases of the tree
RECURSIVE linearize_sovc(_)
RECURSIVE LinearizeAll(_)
LinearizeAll(nodes) ==
    IF nodes = <<>> THEN <<>> ELSE linearize_sovc(Head(nodes)) \o LinearizeAll(Tail(nodes))
linearize_sovc(node) ==
    LinearizeAll(WithRole(node.dependents, {"subj"}))
    \o LinearizeAll(WithRole(node.dependents, {"dobj"}))
    \o LinearizeAll(WithRole(node.dependents, {"iobj"}))
    \o LinearizeAll(WithRole(node.dependents, {"obl", "adjunct", "pred", "mod", "None"}))
    \o (IF node.surface_form # <<>> THEN <<node.surface_form>> ELSE <<>>)
    \o LinearizeAll(WithRole(node.dependents, {"comp"}))

\* core.make_korean_tail(lemma) and core.generate_word(key) (not in src/): the
\* characters a seeded generator draws for the argument, written as one
\* opening mark, the argument and one closing mark
make_korean_tail(lemma) == <<"han(">> \o lemma \o <<")">>
generate_word(key) == <<"word(">> \o key \o <<")">>

\* str(n) for the counts that occur
Digit(n) == CASE n = 0 -> "0" [] n = 1 -> "1" [] n = 2 -> "2" [] n = 3 -> "3" [] OTHER -> "9"

\* _generate_korean_context(original_text, main_clause); "[[" and "]]" are
\* the white square brackets
_generate_korean_context(original_text, main_clause) ==
    LET lemma == lemmatize(IF original_text # <<>> THEN SplitWords(original_text)[1]
                           ELSE <<"d","e","f","a","u","l","t">>)
        han_tail == make_korean_tail(lemma)
        verb_surface == main_clause.surface_form
        num_args == Len(main_clause.dependents)
        clause_type == IF WithRole(main_clause.dependents, {"comp"}) # <<>>
                       THEN <<"c","o","m","p","l","e","x">> ELSE <<"m","a","i","n">>
    IN  <<"[[">> \o <<"c","t","x",":","h","a","n","=">> \o han_tail \o <<";"," ","v","e","r","b","=">> \o verb_surface
        \o <<";"," ","a","r","g","s","=">> \o <<Digit(num_args)>> \o <<";"," ","t","y","p","e","=">> \o clause_type \o <<"]]">>

\* the markers _translate_context_marker has a fixed word for; the word of
\* marker m is written as one opening mark, m and one closing mark
TranslatedMarkers ==
    { <<"w","h","e","n">>, <<"w","h","e","r","e">>, <<"b","e","c","a","u","s","e">>, <<"i","f">>,
      <<"w","h","i","l","e">>, <<"a","f","t","e","r">>, <<"b","e","f","o","r","e">>, <<"i","n">>,
      <<"o","n">>, <<"a","t">> }
_translate_context_marker(marker) ==
    IF marker \in TranslatedMarkers THEN <<"ko(">> \o marker \o <<")">>
    ELSE generate_word(<<"c","t","x",":">> \o marker)

\* the context_parts of _generate_surface_form
RECURSIVE ContextParts(_)
ContextParts(context_clauses) ==
    IF context_clauses = <<>> THEN <<>>
    ELSE << _translate_context_marker(Head(context_clauses).marker) \o <<" ">>
            \o Head(context_clauses).content >>
         \o ContextParts(Tail(context_clauses))

\* _generate_surface_form(sentence)
_generate_surface_form(main_clause, context_clauses, korean_context) ==
    JoinWith(linearize_sovc(main_clause) \o ContextParts(context_clauses)
             \o (IF korean_context # <<>> THEN <<korean_context>> ELSE <<>>), <<" ">>)

(***************************** the parsers' callers *************************)
SynWords ==
    { <<"W","h","e","n">>, <<"w","i","l","l">>, <<"i","s">>, <<"w","a","l","k","e","d">>,
      <<"h","a","v","e","s">>, <<"d","o","g">>, <<"t","h","e">>, <<"i","n">> }
\* texts without words: blank, punctuation only
BlankTexts == {<<" ">>, <<".">>, <<" ", ".">>}
SynTexts == {JoinWith(ws, <<" ">>) : ws \in SeqsUpTo(SynWords, MaxTokens)} \cup BlankTexts

NoSCall == [op |-> "none", text |-> <<>>]
NoSOut  == [raised |-> "", tokens |-> <<>>, vidx |-> 0]
SynIdle == sphase = "idle" /\ scall = NoSCall /\ sout = NoSOut

\* parse_english(text); tokens and vidx are what the call computed on its way
ParseEnglish(text) ==
    /\ sphase' = "done"
    /\ scall' = [op |-> "parse_english", text |-> text]
    /\ \E tokens \in {_tokenize(text)} :
         sout' = [ raised |-> "", tokens |-> tokens,
                   vidx |-> IF tokens = <<>> THEN 0 ELSE _find_verb(tokens),
                   parsed |-> parse_english(text) ]

\* parse_english_advanced(text); indexing an empty token list raises IndexError
ParseEnglishAdvanced(text) ==
    /\ sphase' = "done"
    /\ scall' = [op |-> "parse_english_advanced", text |-> text]
    /\ \E tokens \in {_tokenize_advanced(text)} :
       \E main_verb_idx \in {_find_main_verb(tokens)} :
         IF main_verb_idx >= Len(tokens)
         THEN sout' = [ raised |-> "IndexError", tokens |-> tokens, vidx |-> main_verb_idx ]
         ELSE \E main_clause \in {_parse_main_clause(tokens, main_verb_idx)} :
              \E context_clauses \in {_parse_context_clauses(tokens)} :
              \E korean_context \in {_generate_korean_context(text, main_clause)} :
                sout' = [ raised |-> "", tokens |-> tokens, vidx |-> main_verb_idx,
                          main_clause |-> main_clause,
                          context_clauses |-> context_clauses,
                          korean_context |-> korean_context,
                          surface_form |-> _generate_surface_form(main_clause, context_clauses,
                                                                  korean_context) ]

\* _guess_tense(tokens, verb_idx), called on its own with an index from 0 to
\* len(tokens)
TenseWords ==
    { <<"W","i","l","l">>, <<"w","a","s">>, <<"w","a","l","k","e","d">>, <<"d","o","g">> }
GuessTense(tokens, verb_idx) ==
    /\ sphase' = "done"
    /\ scall' = [op |-> "_guess_tense", text |-> <<>>, tokens |-> tokens, verb_idx |-> verb_idx]
    /\ sout' = [ raised |-> "", tokens |-> <<>>, vidx |-> 0,
                 tense |-> _guess_tense(tokens, verb_idx) ]

SynReturn ==
    /\ sphase = "done"
    /\ sphase' = "idle" /\ scall' = NoSCall /\ sout' = NoSOut

(***************************** lexicon_manager.py ***************************)
\* the enumerations, by member name
LexicalCategory == { "NOUN", "VERB", "ADJECTIVE", "ADVERB", "PREPOSITION", "DETERMINER",
                     "PRONOUN", "CONJUNCTION", "INTERJECTION", "NUMERAL" }
\* LexicalCategory(value), for the values derive_word can give
LexicalCategoryOf == [ noun |-> "NOUN", verb |-> "VERB", adj |-> "ADJECTIVE" ]
SemanticField == { "EMOTION", "COGNITION", "PHILOSOPHY", "ETHICS", "TIME", "SPACE",
                   "NATURE", "HUMAN", "SOCIETY", "ARTIFACT", "ANIMAL", "PLANT",
                   "MOTION", "COMMUNICATION", "CREATION", "DESTRUCTION" }

\* A LexicalEntry with its SemanticInfo: the headword, the category, the
\* semantic field ("None" for None) and the frequency.  Every frequency met is
\* a power of 0.8 (1.0 at creation, times 0.8 per derivation): it is written
\* as the exponent.  The phonetic form, the etymology and the relations of an
\* entry are left out: no index and no lookup reads them.
LexicalEntry(headword, category, semantic_field, frequency) ==
    [ headword |-> headword, category |-> category, semantic_field |-> semantic_field,
      frequency |-> frequency ]

\* a dict keyed by headword, in insertion order
HasKey(d, h)  == \E i \in 1..Len(d) : d[i].headword = h
Keys(d)       == [i \in 1..Len(d) |-> d[i].headword]
Lookup(d, h)  == d[CHOOSE i \in 1..Len(d) : d[i].headword = h]
DictPut(d, e) ==
    IF HasKey(d, e.headword)
    THEN [i \in 1..Len(d) |-> IF d[i].headword = e.headword THEN e ELSE d[i]]
    ELSE Append(d, e)

\* add_entry(entry) on the lexicon lex
add_entry(lex, entry) ==
    [ lex EXCEPT
        !.entries = DictPut(@, entry),
        !.by_category[entry.category] = @ \cup {entry.headword},
        !.by_semantic_field =
            IF entry.semantic_field # "None"
            THEN [@ EXCEPT ![entry.semantic_field] = @ \cup {entry.headword}]
            ELSE @,
        !.frequency_counts =
            {p \in @ : p[1] # entry.headword} \cup {<<entry.headword, entry.frequency>>} ]

\* get_entry(word): the entry in a one-element tuple, <<>> for None
get_entry(lex, word) ==
    IF HasKey(lex.entries, word) THEN <<Lookup(lex.entries, word)>> ELSE <<>>

EmotionWords ==
    { <<"l","o","v","e">>, <<"h","a","t","e">>, <<"j","o","y">>, <<"s","a","d">>,
      <<"a","n","g","e","r">>, <<"f","e","a","r">>, <<"h","a","p","p","y">>,
      <<"s","o","r","r","o","w">> }
NatureWords  ==
    { <<"w","a","t","e","r">>, <<"f","i","r","e">>, <<"e","a","r","t","h">>, <<"a","i","r">>,
      <<"s","u","n">>, <<"m","o","o","n">>, <<"s","t","a","r">>, <<"t","r","e","e">>,
      <<"r","i","v","e","r">>, <<"m","o","u","n","t","a","i","n">> }
TimeWords    ==
    { <<"d","a","y">>, <<"n","i","g","h","t">>, <<"h","o","u","r">>, <<"m","i","n","u","t","e">>,
      <<"y","e","a","r">>, <<"p","a","s","t">>, <<"f","u","t","u","r","e">>, <<"n","o","w">>,
      <<"w","h","e","n">>, <<"w","h","i","l","e">> }
MotionWords  ==
    { <<"g","o">>, <<"c","o","m","e">>, <<"w","a","l","k">>, <<"r","u","n">>, <<"f","l","y">>,
      <<"m","o","v","e">>, <<"t","r","a","v","e","l">>, <<"j","o","u","r","n","e","y">> }
_infer_semantic_field(word, category) ==
    IF Lower(word) \in EmotionWords THEN "EMOTION"
    ELSE IF Lower(word) \in NatureWords THEN "NATURE"
    ELSE IF Lower(word) \in TimeWords THEN "TIME"
    ELSE IF category = "VERB" /\ Lower(word) \in MotionWords THEN "MOTION"
    ELSE IF category = "VERB" THEN "COMMUNICATION"
    ELSE IF category = "NOUN" THEN "ARTIFACT"
    ELSE "None"

\* _create_entry_from_anchor(english_word, category, anchor)
_create_entry_from_anchor(lex, english_word, category, anchor) ==
    LET zyntalic_word == generate_word(anchor \o <<":">> \o english_word) IN
    IF HasKey(lex.entries, zyntalic_word) THEN lex
    ELSE add_entry(lex, LexicalEntry(zyntalic_word, category,
                                     _infer_semantic_field(english_word, category), 0))

\* the anchors of the core and the word lists of those that have a lexicon
ANCHORS == << <<"A","1">>, <<"A","2">> >>
load_lexicons ==
    [ a \in {<<"A","1">>} |-> [ nouns |-> << <<"s","u","n">> >>, verbs |-> << <<"g","o">> >> ] ]

RECURSIVE CreateEntriesFromAnchor(_, _, _, _)
CreateEntriesFromAnchor(lex, words, category, anchor) ==
    IF words = <<>> THEN lex
    ELSE CreateEntriesFromAnchor(_create_entry_from_anchor(lex, Head(words), category, anchor),
                                 Tail(words), category, anchor)

\* _initialize_core_vocabulary(): the anchors in order, nouns then verbs then
\* adjectives of each (the word lists here are shorter than the limits 50, 30, 30)
RECURSIVE InitializeFrom(_, _)
InitializeFrom(lex, anchors) ==
    IF anchors = <<>> THEN lex
    ELSE LET a  == Head(anchors)
             d  == IF a \in DOMAIN load_lexicons THEN load_lexicons[a] ELSE [none |-> <<>>]
             l1 == IF "nouns" \in DOMAIN d
                   THEN CreateEntriesFromAnchor(lex, d.nouns, "NOUN", a) ELSE lex
             l2 == IF "verbs" \in DOMAIN d
                   THEN CreateEntriesFromAnchor(l1, d.verbs, "VERB", a) ELSE l1
             l3 == IF "adjectives" \in DOMAIN d
                   THEN CreateEntriesFromAnchor(l2, d.adjectives, "ADJECTIVE", a) ELSE l2
         IN  InitializeFrom(l3, Tail(anchors))
_initialize_core_vocabulary(lex) == InitializeFrom(lex, ANCHORS)

\* ZyntalicLexicon(seed)
ZyntalicLexicon(seed) ==
    _initialize_core_vocabulary(
        [ rng |-> Seeded(stable_seed(seed)),
          entries |-> <<>>,
          by_category |-> [c \in LexicalCategory |-> {}],
          by_semantic_field |-> [f \in SemanticField |-> {}],
          frequency_counts |-> {} ])

\* create_derived_word(base_word, derivation_type): [raised, lex, result], the
\* result in a one-element tuple, <<>> for None
create_derived_word(lex, base_word, derivation_type) ==
    LET base_entry == get_entry(lex, base_word) IN
    IF base_entry = <<>> THEN [ raised |-> "none", lex |-> lex, result |-> <<>> ]
    ELSE LET d == derive_word(base_word, derivation_type, "noun") IN
         IF d.raised # "none" THEN [ raised |-> d.raised, lex |-> lex, result |-> <<>> ]
         ELSE LET derived_form  == d.word[1]
                  derived_entry ==
                      LexicalEntry(derived_form.surface_form,
                                   LexicalCategoryOf[derived_form.pos],
                                   base_entry[1].semantic_field,
                                   base_entry[1].frequency + 1)
              IN  [ raised |-> "none", lex |-> add_entry(lex, derived_entry),
                    result |-> <<derived_entry>> ]

\* create_compound_word(word1, word2)
create_compound_word(lex, word1, word2) ==
    LET entry1 == get_entry(lex, word1)
        entry2 == get_entry(lex, word2)
    IN  IF entry1 = <<>> \/ entry2 = <<>>
        THEN [ raised |-> "none", lex |-> lex, result |-> <<>> ]
        ELSE LET compound_entry ==
                     LexicalEntry(word1 \o word2, entry2[1].category,
                                  IF entry2[1].semantic_field # "None"
                                  THEN entry2[1].semantic_field
                                  ELSE entry1[1].semantic_field,
                                  \* min of the frequencies: the larger exponent
                                  max(entry1[1].frequency, entry2[1].frequency))
             IN  [ raised |-> "none", lex |-> add_entry(lex, compound_entry),
                   result |-> <<compound_entry>> ]

\* random.random() < 0.1 and random's _randbelow(n) on the generator state st,
\* by the draw of the stand-in generator (a byte, the top 8 bits of the draw)
RandomBelowTenth(st) == Output(Step(st)) * 10 < 256
_randbelow(st, n)    == Output(Step(st)) % n

\* random.shuffle(x): for i from len(x)-1 down to 1, swap x[i] and
\* x[_randbelow(i+1)]; i counts from 0 as in the code
RECURSIVE Shuffle(_, _, _)
Shuffle(st, x, i) ==
    IF i < 1 THEN [ st |-> st, x |-> x ]
    ELSE LET j == _randbelow(st, i + 1)
         IN  Shuffle(Step(st),
                     [x EXCEPT ![i + 1] = x[j + 1], ![j + 1] = x[i + 1]], i - 1)
shuffle(st, x) == Shuffle(st, x, Len(x) - 1)

derivation_types == <<"agent", "instrument", "abstract", "diminutive">>

\* the first loop of expand_vocabulary over (base_word, deriv_type), left is
\* needed - created
RECURSIVE DeriveAll(_, _, _)
DeriveAll(lex, pairs, left) ==
    IF pairs = <<>> \/ left <= 0 THEN [ lex |-> lex, left |-> left ]
    ELSE LET r == create_derived_word(lex, Head(pairs)[1], Head(pairs)[2])
         IN  DeriveAll(r.lex, Tail(pairs), IF r.result # <<>> THEN left - 1 ELSE left)

\* (word1, word2) for word2 after word1 in the list
RECURSIVE PairsOf(_)
PairsOf(words) ==
    IF Len(words) < 2 THEN <<>>
    ELSE [k \in 1..(Len(words) - 1) |-> <<words[1], words[k + 1]>>] \o PairsOf(Tail(words))

\* the second loop of expand_vocabulary: one draw per pair visited
RECURSIVE CompoundAll(_, _, _)
CompoundAll(lex, pairs, left) ==
    IF pairs = <<>> \/ left <= 0 THEN lex
    ELSE LET drawn == [lex EXCEPT !.rng = Step(lex.rng)] IN
         IF RandomBelowTenth(lex.rng)
         THEN LET r == create_compound_word(drawn, Head(pairs)[1], Head(pairs)[2])
              IN  CompoundAll(r.lex, Tail(pairs), IF r.result # <<>> THEN left - 1 ELSE left)
         ELSE CompoundAll(drawn, Tail(pairs), left)

\* expand_vocabulary(target_size)
expand_vocabulary(lex, target_size) ==
    LET current_size == Len(lex.entries) IN
    IF current_size >= target_size THEN lex
    ELSE LET needed     == target_size - current_size
             sh         == shuffle(lex.rng, Keys(lex.entries))
             base_words == sh.x
             n          == Len(derivation_types)
             dpairs     == [k \in 1..(Len(base_words) * n) |->
                              <<base_words[((k - 1) \div n) + 1],
                                derivation_types[((k - 1) % n) + 1]>>]
             d          == DeriveAll([lex EXCEPT !.rng = sh.st], dpairs, needed)
         IN  CompoundAll(d.lex, PairsOf(base_words), d.left)

(***************************** semantic_coherence.py ************************)
\* Floats are written in units of 1/Scale; every quotient met is exact.
Scale == 120
Frac(num, den) == (Scale * num) \div den
RECURSIVE SumOf(_)
SumOf(xs) == IF xs = <<>> THEN 0 ELSE Head(xs) + SumOf(Tail(xs))
Mean(xs) == SumOf(xs) \div Len(xs)
Elems(xs) == {xs[i] : i \in 1..Len(xs)}
RECURSIVE Flatten(_)
Flatten(xss) == IF xss = <<>> THEN <<>> ELSE Head(xss) \o Flatten(Tail(xss))
\* the keys of a dict in insertion order, from the keys in the order they were set
RECURSIVE Distinct(_)
Distinct(xs) ==
    IF xs = <<>> THEN <<>>
    ELSE LET before == Distinct(SubSeq(xs, 1, Len(xs) - 1))
         IN  IF xs[Len(xs)] \in Elems(before) THEN before ELSE Append(before, xs[Len(xs)])
CountIn(xs, x) == Cardinality({i \in 1..Len(xs) : xs[i] = x})

\* re.split(r'[class]+', s): the pieces between the maximal runs of the class
RECURSIVE ReSplitRuns(_, _, _)
ReSplitRuns(s, class, piece) ==
    IF s = <<>> THEN <<piece>>
    ELSE IF Head(s) \in class
         THEN IF Len(s) > 1 /\ s[2] \in class
              THEN ReSplitRuns(Tail(s), class, piece)
              ELSE <<piece>> \o ReSplitRuns(Tail(s), class, <<>>)
         ELSE ReSplitRuns(Tail(s), class, Append(piece, Head(s)))
RECURSIVE StrippedNonEmpty(_)
StrippedNonEmpty(pieces) ==
    IF pieces = <<>> THEN <<>>
    ELSE (IF Strip(Head(pieces)) # <<>> THEN <<Strip(Head(pieces))>> ELSE <<>>)
         \o StrippedNonEmpty(Tail(pieces))
_split_sentences(text) == StrippedNonEmpty(ReSplitRuns(text, TermPunct, <<>>))

\* the typical fillers of the roles 'mover', 'speaker' and 'creator' of a frame
FrameFillers ==
    [ motion        |-> { <<"p","e","r","s","o","n">>, <<"a","n","i","m","a","l">>, <<"o","b","j","e","c","t">> },
      communication |-> { <<"p","e","r","s","o","n">>, <<"a","u","t","h","o","r","i","t","y">>, <<"v","o","i","c","e">> },
      creation      |-> { <<"a","r","t","i","s","t">>, <<"g","o","d">>, <<"p","e","r","s","o","n">> },
      conflict      |-> {},
      relationship  |-> {} ]

\* core.generate_embedding(sentence): the ranked anchors of a text, a function
\* of the text alone; the top anchor is kept with weight 1
generate_embedding(text) == << ANCHORS[(Mix(0, Utf8(text)) % Len(ANCHORS)) + 1] >>
_get_sentence_anchor_weights(sentence) == Elems(generate_embedding(sentence))

\* _analyze_sentence_semantics(sentence): the semantic fields of the words
\* found in the lexicon, one per hit and in order (the dict semantic_fields
\* maps a field to the number of its hits), the frames, the entities and the
\* anchors.  The metaphor indicators feed only conceptual_metaphors.
RECURSIVE AnalyzeWords(_, _, _)
AnalyzeWords(lex, words, acc) ==
    IF words = <<>> THEN acc
    ELSE LET word  == Head(words)
             entry == get_entry(lex, word)
         IN  IF entry = <<>> THEN AnalyzeWords(lex, Tail(words), acc)
             ELSE AnalyzeWords(lex, Tail(words),
                    [ acc EXCEPT
                        !.field_hits = IF entry[1].semantic_field # "None"
                                       THEN Append(@, entry[1].semantic_field) ELSE @,
                        !.active_frames = @ \cup {f \in DOMAIN FrameFillers :
                                                     word \in FrameFillers[f]},
                        !.entities = IF entry[1].category = "NOUN"
                                     THEN Append(@, word) ELSE @ ])
_analyze_sentence_semantics(lex, sentence) ==
    AnalyzeWords(lex, SplitWords(Lower(sentence)),
                 [ sentence |-> sentence, field_hits |-> <<>>, active_frames |-> {},
                   entities |-> <<>>,
                   anchor_weights |-> _get_sentence_anchor_weights(sentence) ])
FieldsOf(analysis) == Elems(analysis.field_hits)

\* _update_discourse_context(sentence, analysis): entity_mentions is the one
\* part of the discourse context that is read again; sentence_history,
\* active_fields and active_frames are only written
Mentions(sem, entity) ==
    IF \E p \in sem.entity_mentions : p[1] = entity
    THEN (CHOOSE p \in sem.entity_mentions : p[1] = entity)[2] ELSE 0
RECURSIVE TrackEntities(_, _)
TrackEntities(sem, entities) ==
    IF entities = <<>> THEN sem
    ELSE LET entity == Head(entities)
         IN  TrackEntities(
               [ sem EXCEPT !.entity_mentions =
                   {p \in @ : p[1] # entity} \cup {<<entity, Mentions(sem, entity) + 1>>} ],
               Tail(entities))
_update_discourse_context(sem, sentence, analysis) == TrackEntities(sem, analysis.entities)

\* the overlap of consecutive sets, where both are non-empty
Overlaps(sets) ==
    LET idx == {i \in 1..(Len(sets) - 1) : sets[i] # {} /\ sets[i + 1] # {}}
        RECURSIVE From(_)
        From(i) == IF i > Len(sets) - 1 THEN <<>>
                   ELSE (IF i \in idx
                         THEN <<Frac(Cardinality(sets[i] \cap sets[i + 1]),
                                     Cardinality(sets[i] \cup sets[i + 1]))>>
                         ELSE <<>>) \o From(i + 1)
    IN  From(1)

_measure_field_consistency(sentence_analyses) ==
    LET fields == [i \in 1..Len(sentence_analyses) |-> FieldsOf(sentence_analyses[i])]
        overlaps == Overlaps(fields)
    IN  IF sentence_analyses = <<>> THEN Scale
        ELSE IF UNION Elems(fields) = {} THEN Scale \div 2
        ELSE IF overlaps # <<>> THEN Mean(overlaps) ELSE Scale \div 2

_measure_entity_coherence(sem) ==
    LET mentions == sem.entity_mentions IN
    IF mentions = {} THEN Scale \div 2
    ELSE Frac(Cardinality({p \in mentions : p[2] > 1}), Cardinality(mentions))

_measure_anchor_consistency(sentence_analyses) ==
    LET anchors  == [i \in 1..Len(sentence_analyses) |-> sentence_analyses[i].anchor_weights]
        overlaps == Overlaps(anchors)
    IN  IF sentence_analyses = <<>> THEN Scale
        ELSE IF Cardinality(UNION Elems(anchors)) < 2 THEN Scale
        ELSE IF overlaps # <<>> THEN Mean(overlaps) ELSE Scale \div 2

\* all_frames lists the frames of every sentence; a frame counts as repeated
\* when more than one sentence has it
_measure_frame_consistency(sentence_analyses) ==
    LET frames == UNION {sentence_analyses[i].active_frames : i \in 1..Len(sentence_analyses)}
        times(f) == Cardinality({i \in 1..Len(sentence_analyses) :
                                   f \in sentence_analyses[i].active_frames})
    IN  IF frames = {} THEN Scale \div 2
        ELSE Frac(Cardinality({f \in frames : times(f) > 1}), Cardinality(frames))

\* _compute_coherence_score: the mean of four factors
_compute_coherence_score(sem, sentence_analyses) ==
    IF Len(sentence_analyses) < 2 THEN Scale
    ELSE Mean(<< _measure_field_consistency(sentence_analyses),
                 _measure_entity_coherence(sem),
                 _measure_anchor_consistency(sentence_analyses),
                 _measure_frame_consistency(sentence_analyses) >>)

\* _identify_primary_theme: the first field of the largest total, by its
\* enumeration name where field_to_theme has no theme for it
field_to_theme ==
    [ EMOTION |-> "emotional_experience", PHILOSOPHY |-> "philosophical_inquiry",
      NATURE |-> "natural_world", TIME |-> "temporal_experience",
      MOTION |-> "journey_movement", COMMUNICATION |-> "dialogue_expression" ]
_identify_primary_theme(sentence_analyses) ==
    LET hits  == Flatten([i \in 1..Len(sentence_analyses) |-> sentence_analyses[i].field_hits])
        order == Distinct(hits)
    IN  IF order = <<>> THEN "None"
        ELSE LET k == CHOOSE i \in 1..Len(order) :
                        /\ \A j \in 1..Len(order) : CountIn(hits, order[j]) <= CountIn(hits, order[i])
                        /\ \A j \in 1..(i - 1) : CountIn(hits, order[j]) < CountIn(hits, order[i])
             IN  IF order[k] \in DOMAIN field_to_theme THEN field_to_theme[order[k]]
                 ELSE order[k]

\* _aggregate_semantic_fields: per field, the hits over the number of sentences
_aggregate_semantic_fields(sentence_analyses) ==
    LET hits == Flatten([i \in 1..Len(sentence_analyses) |-> sentence_analyses[i].field_hits])
    IN  {<<f, CountIn(hits, f), Len(sentence_analyses)>> : f \in Elems(hits)}

\* the loop of analyze_semantic_coherence over the sentences
RECURSIVE AnalyzeSentences(_, _, _, _)
AnalyzeSentences(sem, lex, sentences, analyses) ==
    IF sentences = <<>> THEN [ sem |-> sem, analyses |-> analyses ]
    ELSE LET sent_analysis == _analyze_sentence_semantics(lex, Head(sentences))
         IN  AnalyzeSentences(_update_discourse_context(sem, Head(sentences), sent_analysis),
                              lex, Tail(sentences), Append(analyses, sent_analysis))

\* analyze_semantic_coherence(text): [sem, analysis], sem the processor
\* afterwards.  conceptual_metaphors, a function of the sentence analyses
\* alone, is left out of the analysis.
analyze_semantic_coherence(sem, lex, text) ==
    CHOOSE result \in
      { [ sem |-> r.sem,
          analysis |->
            [ primary_theme   |-> _identify_primary_theme(r.analyses),
              semantic_fields |-> _aggregate_semantic_fields(r.analyses),
              coherence_score |-> _compute_coherence_score(r.sem, r.analyses),
              anchor_activation |-> Elems(generate_embedding(text)) ] ] :
        r \in {AnalyzeSentences(sem, lex, _split_sentences(text), <<>>)} } : TRUE

\* SemanticCoherenceProcessor(lexicon, seed)
SemanticCoherenceProcessor == [ entity_mentions |-> {} ]

\* _cross_lingual_coherence(english_analysis, zyntalic_analysis).  Each
\* analysis holds one anchor of weight 1, so the cosine similarity of the
\* anchor vectors is 1 when the anchors agree and no factor is added otherwise.
_cross_lingual_coherence(english_analysis, zyntalic_analysis) ==
    LET theme_match    == IF english_analysis.primary_theme = zyntalic_analysis.primary_theme
                          THEN Scale ELSE (3 * Scale) \div 10
        english_fields  == {p[1] : p \in english_analysis.semantic_fields}
        zyntalic_fields == {p[1] : p \in zyntalic_analysis.semantic_fields}
        field_overlap  == IF english_fields # {} /\ zyntalic_fields # {}
                          THEN Frac(Cardinality(english_fields \cap zyntalic_fields),
                                    Cardinality(english_fields \cup zyntalic_fields))
                          ELSE Scale \div 2
        common_anchors == english_analysis.anchor_activation
                            \cap zyntalic_analysis.anchor_activation
    IN  Mean(<<theme_match, field_overlap>>
             \o (IF common_anchors # {} THEN <<Scale>> ELSE <<>>))

\* the pieces of a rendered string between its context-tail openers,
\* str.split('[[ctx:')
RECURSIVE SplitAtOpen(_, _)
SplitAtOpen(toks, piece) ==
    IF toks = <<>> THEN <<piece>>
    ELSE IF Head(toks).k = "open" THEN <<piece>> \o SplitAtOpen(Tail(toks), <<>>)
    ELSE SplitAtOpen(Tail(toks), Append(piece, Head(toks)))
HasOpen(toks) == \E i \in 1..Len(toks) : toks[i].k = "open"
Opener == Tok("open", <<>>, 0)
\* text.replace('[[ctx:', addition + '[[ctx:'): addition before every opener
RECURSIVE BeforeEveryOpen(_, _)
BeforeEveryOpen(toks, addition) ==
    IF toks = <<>> THEN <<>>
    ELSE (IF Head(toks).k = "open" THEN addition ELSE <<>>)
         \o <<Head(toks)>> \o BeforeEveryOpen(Tail(toks), addition)

\* _improve_translation_coherence(english_text, zyntalic_translation, english_analysis)
_improve_translation_coherence(english_text, zyntalic_translation, english_analysis) ==
    IF english_analysis.primary_theme # "None"
    THEN LET theme_marker == Tok("theme", <<english_analysis.primary_theme>>, 0) IN
         IF HasOpen(zyntalic_translation)
         THEN LET parts == SplitAtOpen(zyntalic_translation, <<>>)
              IN  parts[1] \o <<theme_marker, Opener>> \o parts[2]
         ELSE Append(zyntalic_translation, theme_marker)
    ELSE zyntalic_translation

\* the words of a rendered string are synthesized: none is taken to be a
\* headword of the lexicon, and its anchors are those of the seeds of its words
RenderedAnalysis(rendered) ==
    [ primary_theme |-> "None", semantic_fields |-> {},
      anchor_activation |->
        Elems(generate_embedding(Flatten([i \in 1..Len(rendered) |->
                                            IF rendered[i].k = "word" THEN rendered[i].v
                                            ELSE <<>>]))) ]

\* ensure_translation_coherence(english_text, zyntalic_translation):
\* [sem, translation, coherence]; both texts are analyzed, the English one
\* through the discourse context
ensure_translation_coherence(sem, lex, english_text, zyntalic_translation) ==
    CHOOSE result \in
      { [ sem |-> e.sem,
          translation |-> IF coherence_score < (6 * Scale) \div 10
                          THEN _improve_translation_coherence(english_text,
                                                              zyntalic_translation, e.analysis)
                          ELSE zyntalic_translation,
          coherence |-> coherence_score ] :
        <<e, coherence_score>> \in
          { <<x, _cross_lingual_coherence(x.analysis, RenderedAnalysis(zyntalic_translation))>> :
            x \in {analyze_semantic_coherence(sem, lex, english_text)} } } : TRUE

(***************************** advanced_features.py *************************)
Register == {"FORMAL", "INFORMAL", "LITERARY", "ARCHAIC", "TECHNICAL"}
\* register_variations[register].get('metaphor_rate', 0.5) and
\* LanguageVariation.archaism_rate, in hundredths
metaphor_rate == 80
archaism_rate == 10
\* rng.random() < rate/100 on the generator state st, by the stand-in draw
RandomBelow(st, rate) == Output(Step(st)) * 100 < rate * 256

\* _generate_base_translation(text, variation): one entry of the core per
\* non-empty sentence, joined by spaces
RECURSIVE BaseParts(_, _)
BaseParts(sentences, mirror_rate) ==
    IF sentences = <<>> THEN <<>>
    ELSE LET rest == BaseParts(Tail(sentences), mirror_rate) IN
         IF Strip(Head(sentences)) = <<>> THEN rest
         ELSE <<generate_entry(Strip(Head(sentences)), mirror_rate, "None").sentence>> \o rest
RECURSIVE JoinRendered(_)
JoinRendered(parts) ==
    IF parts = <<>> THEN <<>>
    ELSE IF Len(parts) = 1 THEN parts[1]
    ELSE parts[1] \o <<Tok("space", <<>>, 0)>> \o JoinRendered(Tail(parts))
_generate_base_translation(text, register) ==
    JoinRendered(BaseParts(ReSplitRuns(text, TermPunct, <<>>),
                                IF register = "LITERARY" THEN 95
                                ELSE IF register = "INFORMAL" THEN 30 ELSE 80))

\* _apply_register_variation(text, variation): [rng, text].  FORMAL rewrites
\* the endings of the words; LITERARY and ARCHAIC draw from the processor's
\* generator and add a flourish or an archaic marker by the draw.
_apply_register_variation(rng, rendered, register) ==
    IF register = "FORMAL"
    THEN [ rng |-> rng,
           text |-> [i \in 1..Len(rendered) |->
                       IF rendered[i].k = "word" THEN [rendered[i] EXCEPT !.k = "word-formal"]
                       ELSE rendered[i]] ]
    ELSE IF register = "LITERARY"
    THEN [ rng |-> Step(rng),
           text |-> IF RandomBelow(rng, metaphor_rate) /\ HasOpen(rendered)
                    THEN LET parts == SplitAtOpen(rendered, <<>>)
                         IN  parts[1] \o <<Tok("flourish", <<>>, 0), Opener>> \o parts[2]
                    ELSE rendered ]
    ELSE IF register = "ARCHAIC"
    THEN [ rng |-> Step(rng),
           text |-> IF RandomBelow(rng, archaism_rate)
                    THEN BeforeEveryOpen(rendered, <<Tok("archaic", <<>>, 0)>>)
                    ELSE rendered ]
    ELSE [ rng |-> rng, text |-> rendered ]

\* _add_cultural_context(text, original, variation)
cultural_concepts == << <<"f","a","m","i","l","y">>, <<"h","o","n","o","r">>, <<"n","a","t","u","r","e">>, <<"t","i","m","e">>, <<"s","p","a","c","e">> >>
_add_cultural_context(rendered, original) ==
    LET cultural_markers == {c \in Elems(cultural_concepts) : Contains(Lower(original), c)}
    IN  IF cultural_markers # {} /\ HasOpen(rendered)
        THEN [i \in 1..Len(rendered) |->
                IF rendered[i].k = "open" THEN Tok("open", <<"culture">>, 0) ELSE rendered[i]]
        ELSE rendered

\* translate_advanced(text, variation, options) with the options at their
\* defaults but for apply_sound_changes (sound_changes): [raised, sem, rng, result]
TranslateAdvancedFrom(a, tokens, reg, rng, lex, text, sound_changes) ==
    IF _find_main_verb(tokens) >= Len(tokens)
    THEN [ raised |-> "IndexError", sem |-> a.sem, rng |-> rng, result |-> <<>> ]
    ELSE IF sound_changes
    \* PhonologicalProcessor has no method analyze_phonotactics
    THEN [ raised |-> "AttributeError", sem |-> a.sem, rng |-> reg.rng, result |-> <<>> ]
    ELSE CHOOSE result \in
           { [ raised |-> "none", sem |-> c.sem, rng |-> reg.rng,
               result |-> << [ zyntalic_text |-> c.translation,
                               coherence_score |-> c.coherence,
                               semantic_analysis |-> a.analysis ] >> ] :
             c \in {ensure_translation_coherence(a.sem, lex, text,
                                                 _add_cultural_context(reg.text, text))} } : TRUE
translate_advanced(sem, rng, lex, text, register, sound_changes) ==
    CHOOSE result \in
      { TranslateAdvancedFrom(a, tokens, reg, rng, lex, text, sound_changes) :
        a \in {analyze_semantic_coherence(sem, lex, text)},
        tokens \in {_tokenize_advanced(text)},
        reg \in {_apply_register_variation(rng, _generate_base_translation(text, register),
                                           register)} } : TRUE

\* get_vocabulary_stats(): [lex, stats]; the phonetic diversity is a function
\* of the words it is measured over, a sample when there are more than 100
SampleLimit == 100
get_vocabulary_stats(lex) ==
    LET words  == Keys(lex.entries)
        sh     == shuffle(lex.rng, words)
        sample == IF Len(words) > SampleLimit THEN SubSeq(sh.x, 1, SampleLimit) ELSE words
    IN  [ lex |-> IF Len(words) > SampleLimit THEN [lex EXCEPT !.rng = sh.st] ELSE lex,
          stats |->
            [ total_entries |-> Len(lex.entries),
              by_category |-> {<<c, Cardinality(lex.by_category[c])>> :
                                 c \in {x \in LexicalCategory : lex.by_category[x] # {}}},
              by_semantic_field |-> {<<f, Cardinality(lex.by_semantic_field[f])>> :
                                 f \in {x \in SemanticField : lex.by_semantic_field[x] # {}}},
              frequency_counts |-> lex.frequency_counts,
              phonetic_diversity |-> IF Len(lex.entries) < 2 THEN <<>> ELSE sample ] ]

(***************************** the lexicon's callers ************************)
LexSeed     == <<"l","e","x","i","c","o","n">>
LexHeads    == { <<"a">>, <<"e">> }
LexEntries  == { LexicalEntry(h, c, f, 0) :
                   h \in LexHeads, c \in {"NOUN", "VERB"}, f \in {"None", "NATURE"} }
LexDerivationTypes == {"agent", "diminutive", "plural"}
NoLexCall   == [ op |-> "none", raised |-> "none", result |-> <<>> ]
\* the words a caller passes: the fixed ones and the headwords in the lexicon
WordsKnown  == LexHeads \cup {lexicon.entries[i].headword : i \in 1..Len(lexicon.entries)}

LexInit == lexicon = ZyntalicLexicon(LexSeed) /\ lexlog = NoLexCall

AddEntry(entry) ==
    /\ Len(lexicon.entries) < MaxEntries
    /\ lexicon' = add_entry(lexicon, entry)
    /\ lexlog' = [ op |-> "add_entry", raised |-> "none", result |-> <<>> ]

CreateDerivedWord(base_word, derivation_type) ==
    /\ Len(lexicon.entries) < MaxEntries
    /\ \E r \in {create_derived_word(lexicon, base_word, derivation_type)} :
         /\ lexicon' = r.lex
         /\ lexlog' = [ op |-> "create_derived_word", raised |-> r.raised,
                        result |-> r.result ]

CreateCompoundWord(word1, word2) ==
    /\ Len(lexicon.entries) < MaxEntries
    /\ \E r \in {create_compound_word(lexicon, word1, word2)} :
         /\ lexicon' = r.lex
         /\ lexlog' = [ op |-> "create_compound_word", raised |-> r.raised,
                        result |-> r.result ]

ExpandVocabulary(target_size) ==
    /\ lexicon' = expand_vocabulary(lexicon, target_size)
    /\ lexlog' = [ op |-> "expand_vocabulary", raised |-> "none", result |-> <<>> ]

(***************************** the processors' callers *********************)
ProcSeed    == <<"a","d","v","a","n","c","e","d","_","z","y","n","t","a","l","i","c">>
ProcWords   == { <<"e">>, <<"x">> }
ProcTexts   == {JoinWith(ss, <<".", " ">>) : ss \in SeqsUpTo(ProcWords, MaxSentences)}
ProcEntries == { LexicalEntry(<<"e">>, "NOUN", "NATURE", 0) }
ProcRegisters == {"FORMAL", "LITERARY", "ARCHAIC"}
NoProcCall == [ set |-> FALSE, call |-> [op |-> "none"], result |-> <<>>, lex |-> <<>> ]
\* AdvancedZyntalicProcessor(seed): its generator; its lexicon and its
\* semantics processor are the variables lexicon and semantics
AdvancedZyntalicProcessor(seed) == [ rng |-> Seeded(stable_seed(seed)) ]

ProcIdle ==
    /\ semantics = SemanticCoherenceProcessor
    /\ advanced = AdvancedZyntalicProcessor(ProcSeed)
    /\ pfirst = NoProcCall /\ plast = NoProcCall
ProcInit ==
    /\ lexicon = ZyntalicLexicon(ProcSeed) /\ lexlog = NoLexCall
    /\ ProcIdle

\* the first call on the instance is kept; a later call is kept while it is
\* the last call and repeats the first, on a lexicon that holds the same
Logged(call, result) ==
    \E rec \in {[ set |-> TRUE, call |-> call, result |-> result,
                  lex |-> [lexicon EXCEPT !.rng = <<>>] ]} :
      /\ pfirst' = IF pfirst.set THEN pfirst ELSE rec
      /\ plast' = IF pfirst.set /\ pfirst.call = call /\ pfirst.lex = rec.lex
                  THEN rec ELSE NoProcCall

MentionsWithin(sem) == \A p \in sem.entity_mentions : p[2] <= MaxMentions

AnalyzeSemanticCoherence(text) ==
    \E r \in {analyze_semantic_coherence(semantics, lexicon, text)} :
      /\ MentionsWithin(r.sem)
      /\ semantics' = r.sem
      /\ Logged([op |-> "analyze_semantic_coherence", text |-> text], r.analysis)
      /\ UNCHANGED <<lexicon, lexlog, advanced>>

TranslateAdvanced(text, register, sound_changes) ==
    \E r \in {translate_advanced(semantics, advanced.rng, lexicon, text, register,
                                 sound_changes)} :
      /\ MentionsWithin(r.sem)
      /\ r.rng \in {StepN(AdvancedZyntalicProcessor(ProcSeed).rng, k) : k \in 0..MaxDraws}
      /\ semantics' = r.sem
      /\ advanced' = [advanced EXCEPT !.rng = r.rng]
      /\ Logged([op |-> "translate_advanced", text |-> text, register |-> register,
                 sound_changes |-> sound_changes],
                [raised |-> r.raised, value |-> r.result])
      /\ UNCHANGED <<lexicon, lexlog>>

GetVocabularyStats ==
    \E r \in {get_vocabulary_stats(lexicon)} :
      /\ lexicon' = r.lex
      /\ Logged([op |-> "get_vocabulary_stats"], r.stats)
      /\ UNCHANGED <<lexlog, semantics, advanced>>

(***************************** utils/cache.py *******************************)
\* A mirror rate is written in hundred-thousandths here: 80000 is 0.8.
\* f"{mirror_rate:.4f}": the rate rounded to four decimals, as text
DecimalDigit(n) == <<"0", "1", "2", "3", "4", "5", "6", "7", "8", "9">>[n + 1]
RECURSIVE Decimal(_)
Decimal(n) == IF n < 10 THEN <<DecimalDigit(n)>>
              ELSE Decimal(n \div 10) \o <<DecimalDigit(n % 10)>>
Format4(mirror_rate) ==
    LET q == (mirror_rate + 5) \div 10
    IN  Decimal(q \div 10000) \o <<".">>
        \o << DecimalDigit((q \div 1000) % 10), DecimalDigit((q \div 100) % 10),
              DecimalDigit((q \div 10) % 10), DecimalDigit(q % 10) >>

\* the characters of an engine name
EngineChars(engine) ==
    CASE engine = "core"        -> <<"c","o","r","e">>
      [] engine = "test_suite"  -> <<"t","e","s","t","_","s","u","i","t","e">>
      [] engine = "transformer" -> <<"t","r","a","n","s","f","o","r","m","e","r">>
      [] engine = "chiasmus"    -> <<"c","h","i","a","s","m","u","s">>
      [] engine = "core|0.8000" -> <<"c","o","r","e","|","0",".","8","0","0","0">>

\* _key(source, engine, mirror_rate): the digest of the payload.  A 12-byte
\* blake2s digest is written as the payload it was computed from.
_key(source, engine, mirror_rate) ==
    EngineChars(engine) \o <<"|">> \o Format4(mirror_rate) \o <<"|">> \o Strip(source)

\* _cache: a dict in insertion order, a sequence of [key, value]
CacheHas(d, k) == \E i \in 1..Len(d) : d[i].key = k
CacheGet(d, k) == d[CHOOSE i \in 1..Len(d) : d[i].key = k].value
CacheSet(d, k, v) ==
    IF CacheHas(d, k)
    THEN [i \in 1..Len(d) |-> IF d[i].key = k THEN [key |-> k, value |-> v] ELSE d[i]]
    ELSE Append(d, [key |-> k, value |-> v])

\* json.dump(_cache, f): what is written, piece by piece
NoValue == [source |-> <<>>, target |-> <<>>, engine |-> "", mirror_rate |-> 0,
            anchors |-> <<>>, embedding |-> <<>>, created_at |-> 0]
Brace(c) == [tok |-> c, key |-> <<>>, value |-> NoValue]
JsonDump(d) ==
    <<Brace("{")>> \o [i \in 1..Len(d) |-> [tok |-> "member", key |-> d[i].key,
                                            value |-> d[i].value]]
    \o <<Brace("}")>>
\* json.load(f): the dictionary read, or raised when the text is no JSON object
IsJsonObject(text) ==
    /\ Len(text) >= 2 /\ text[1].tok = "{" /\ text[Len(text)].tok = "}"
    /\ \A i \in 2..(Len(text) - 1) : text[i].tok = "member"
RECURSIVE MembersFrom(_, _, _)
MembersFrom(text, i, d) ==
    IF i >= Len(text) THEN d
    ELSE MembersFrom(text, i + 1, CacheSet(d, text[i].key, text[i].value))
JsonLoad(text) ==
    IF IsJsonObject(text) THEN [raised |-> FALSE, data |-> MembersFrom(text, 2, <<>>)]
    ELSE [raised |-> TRUE, data |-> <<>>]

\* data/cache: inodes holds the text of every file ever created, tmp and
\* path the file each name points to (0: the name does not exist)
NoFiles == [inodes |-> <<>>, tmp |-> 0, path |-> 0]
\* open(tmp_path, "w"): the file is created, or emptied when it exists
OpenTmp(d) ==
    IF d.tmp # 0
    THEN [disk |-> [d EXCEPT !.inodes[d.tmp] = <<>>], fd |-> d.tmp]
    ELSE [disk |-> [d EXCEPT !.inodes = Append(d.inodes, <<>>), !.tmp = Len(d.inodes) + 1],
          fd |-> Len(d.inodes) + 1]
\* the buffer of a file object opened at offset 0 is flushed into its file
Flush(d, fd, buffer) ==
    LET old == d.inodes[fd]
    IN  [d EXCEPT !.inodes[fd] = buffer \o SubSeq(old, Len(buffer) + 1, Len(old))]
\* os.replace(tmp_path, CACHE_PATH)
os_replace(d) ==
    IF d.tmp = 0 THEN [raised |-> TRUE, disk |-> d]
    ELSE [raised |-> FALSE, disk |-> [d EXCEPT !.path = d.tmp, !.tmp = 0]]
\* the text of translations.json
CacheFile(d) == IF d.path = 0 THEN <<>> ELSE d.inodes[d.path]

\* init_cache(): [cache, initialized]
init_cache(cache, initialized, d) ==
    IF initialized THEN cache
    ELSE IF d.path = 0 THEN cache
    ELSE JsonLoad(CacheFile(d)).data

\* save_cache() run without interruption
save_cache(cache, d) ==
    LET opened == OpenTmp(d)
    IN  os_replace(Flush(opened.disk, opened.fd, JsonDump(cache))).disk

\* get_cached_translation(source, engine, mirror_rate) on the dictionary cache
get_cached_translation(cache, source, engine, mirror_rate) ==
    LET k == _key(source, engine, mirror_rate)
    IN  IF CacheHas(cache, k) THEN [found |-> TRUE, entry |-> CacheGet(cache, k)]
        ELSE [found |-> FALSE, entry |-> NoValue]

\* the entry put_cached_translation builds (lines 98-106)
CacheEntry(source, target, engine, mirror_rate, anchors, embedding, now) ==
    [ source |-> source, target |-> target, engine |-> engine,
      mirror_rate |-> mirror_rate, anchors |-> anchors, embedding |-> embedding,
      created_at |-> now ]

\* put_cached_translation(source, target, engine, mirror_rate, anchors,
\* embedding=None) run without interruption at time now; em is the state of
\* the embeddings module and whether a model load attempted now succeeds.
put_cached_translation(cache, initialized, d, em, source, target, engine, mirror_rate, anchors, now) ==
    LET loaded == init_cache(cache, initialized, d)
        emb    == embed_text(PyStr(target), 300, em.model, em.dim, em.lib, em.loads)
        entry  == CacheEntry(source, target, engine, mirror_rate, anchors, emb.vector, now)
        stored == CacheSet(loaded, _key(source, engine, mirror_rate), entry)
    IN  [ cache |-> stored, disk |-> save_cache(stored, d), entry |-> entry,
          em |-> [em EXCEPT !.model = emb.model, !.dim = emb.dim] ]

(***************************** apps/web/app.py ******************************)
\* the loop of translate over the rows (lines 300-311): st holds the cache,
\* the files, the embeddings module, the rows stored and the puts made
RECURSIVE StoreRows(_, _, _, _)
StoreRows(st, rows, i, req) ==
    IF i > Len(rows) THEN st
    ELSE LET row == rows[i]
             res == put_cached_translation(st.cache, TRUE, st.disk, st.em, row.source,
                                           row.target, row.engine, req.mirror_rate,
                                           row.anchors, Len(st.puts) + 1)
         IN  StoreRows([ cache |-> res.cache, disk |-> res.disk, em |-> res.em,
                         stored |-> Append(st.stored, res.entry),
                         puts |-> Append(st.puts, [ source |-> row.source,
                                                    engine |-> row.engine,
                                                    mirror_rate |-> req.mirror_rate,
                                                    entry |-> res.entry ]) ],
                       rows, i + 1, req)

\* translate(req), the handler of POST /translate, run without interruption:
\* the response (rows, cached), whether translate_text was called, and the
\* state it leaves
translate(cache, initialized, d, em, log, model, e, loadAt, req) ==
    LET loaded == init_cache(cache, initialized, d)
        cached == get_cached_translation(loaded, req.text, req.engine, req.mirror_rate)
    IN  IF cached.found
        THEN [ rows |-> <<cached.entry>>, cached |-> TRUE, called |-> FALSE,
               cache |-> loaded, disk |-> d, em |-> em, puts |-> log, model |-> model ]
        ELSE LET res == translate_text(PyStr(req.text), req.mirror_rate, req.engine,
                                       "None", model, e, loadAt)
                 st  == StoreRows([ cache |-> loaded, disk |-> d, em |-> em,
                                    stored |-> <<>>, puts |-> log ], res.recs, 1, req)
             IN  [ rows |-> st.stored, cached |-> FALSE, called |-> TRUE,
                   cache |-> st.cache, disk |-> st.disk, em |-> st.em, puts |-> st.puts,
                   model |-> res.model ]

(***************************** the cache's callers **************************)
MaxPuts == 2          \* most entries put before the last call starts
CacheSources == { <<"e">>, << " ", "e" >>, <<"0",".","3","0","0","0","|","e">> }
CacheTarget  == <<Tok("word", <<"e">>, 0)>>
GetEngines   == { "core", "core|0.8000" }
PutRates     == { 80000, 30000 }
CacheRates   == { 80000, 80004, 30000 }
CacheEnvs    == { AllOk, [AllOk EXCEPT !.ch = FALSE] }
Requests     == [ text : { <<"e">>, << "e", ".", " ", "b" >> }, engine : { "core", "chiasmus" },
                  mirror_rate : { 80000, 30000 } ]

NoRequest == [ text |-> <<>>, engine |-> "", mirror_rate |-> 0 ]
NoWebCall == [ op |-> "none", req |-> NoRequest, rows |-> <<>>, cached |-> FALSE,
               called |-> FALSE, later |-> FALSE ]
NoFirst   == [ set |-> FALSE, req |-> NoRequest, rows |-> <<>> ]
Embeddings(loads) == [ model |-> embModel, dim |-> embDim, lib |-> embLib, loads |-> loads ]

CacheIdle ==
    /\ _cache = <<>> /\ _initialized = FALSE /\ disk = NoFiles /\ puts = <<>>
    /\ weblog = NoWebCall /\ wfirst = NoFirst /\ threads = <<>>

\* a caller stores one translation
PutCachedTranslation(source, target, engine, mirror_rate, loads) ==
    /\ Len(puts) < MaxPuts
    /\ \E res \in { put_cached_translation(_cache, _initialized, disk, Embeddings(loads),
                                           source, target, engine, mirror_rate, <<>>,
                                           Len(puts) + 1) } :
         /\ _cache' = res.cache /\ disk' = res.disk
         /\ embModel' = res.em.model /\ embDim' = res.em.dim
         /\ puts' = Append(puts, [ source |-> source, engine |-> engine,
                                   mirror_rate |-> mirror_rate, entry |-> res.entry ])
         /\ weblog' = [ NoWebCall EXCEPT !.op = "put", !.rows = <<res.entry>>,
                        !.req = [ text |-> source, engine |-> engine,
                                  mirror_rate |-> mirror_rate ] ]
    /\ _initialized' = TRUE
    /\ UNCHANGED <<wfirst, threads, embLib, embLog>>

\* a caller looks one translation up
GetCachedTranslation(source, engine, mirror_rate) ==
    /\ \E loaded \in { init_cache(_cache, _initialized, disk) } :
         /\ _cache' = loaded
         /\ \E res \in { get_cached_translation(loaded, source, engine, mirror_rate) } :
              weblog' = [ NoWebCall EXCEPT !.op = "get", !.cached = res.found,
                          !.rows = IF res.found THEN <<res.entry>> ELSE <<>>,
                          !.req = [ text |-> source, engine |-> engine,
                                    mirror_rate |-> mirror_rate ] ]
    /\ _initialized' = TRUE
    /\ UNCHANGED <<disk, puts, wfirst, threads, embVars>>

\* a client posts a request to /translate and is answered
Translate(req, loads, loadAt) ==
    /\ Len(puts) <= MaxPuts
    /\ \E res \in { translate(_cache, _initialized, disk, Embeddings(loads), puts,
                              MODEL, env, loadAt, req) } :
         /\ _cache' = res.cache /\ disk' = res.disk /\ puts' = res.puts
         /\ embModel' = res.em.model /\ embDim' = res.em.dim
         /\ MODEL' = res.model
         /\ weblog' = [ op |-> "translate", req |-> req, rows |-> res.rows,
                        cached |-> res.cached, called |-> res.called,
                        later |-> wfirst.set /\ wfirst.req = req ]
         /\ wfirst' = IF wfirst.set THEN wfirst
                      ELSE [ set |-> TRUE, req |-> req, rows |-> res.rows ]
    /\ _initialized' = TRUE
    /\ UNCHANGED <<threads, embLib, embLog, phase, cur, out, prev, ghost, env>>

\* the server process is stopped and started again
Restart ==
    /\ _initialized
    /\ _cache' = <<>> /\ _initialized' = FALSE /\ weblog' = NoWebCall
    /\ MODEL' = "None" /\ embModel' = "None" /\ embDim' = 0
    /\ UNCHANGED <<disk, puts, wfirst, threads, embLib, embLog, phase, cur, out, prev,
                   ghost, env>>

ExtIdle == LexInit /\ ProcIdle /\ CacheIdle

\* the parts of the process that a specification leaves alone
TrIdle ==
    /\ phase = "idle" /\ cur = NoCall /\ out = NoOut /\ prev = NoPrev /\ ghost = <<>>
    /\ MODEL = "None" /\ env = AllOk

Init == TrInit /\ RngInit /\ MorIdle /\ PhonIdle /\ EmbIdle /\ SynIdle /\ ExtIdle

Next ==
    \/ /\ phase = "idle"
       /\ \E text \in Texts, r \in MirrorRates, e \in Engines :
            \E k \in LoadChoices(e) :
               Call("translate_text", text, r, e, k) /\ UNCHANGED <<rngVars, morVars, phonVars, embVars, synVars, extVars>>
    \/ /\ phase = "idle"
       /\ \E text \in SentenceTexts, r \in MirrorRates, e \in Engines :
            \E k \in LoadChoices(e) \cap {0, 1} :
               Call("translate_sentence", text, r, e, k) /\ UNCHANGED <<rngVars, morVars, phonVars, embVars, synVars, extVars>>
    \/ /\ phase = "done"
       /\ \E k \in LoadChoices(cur.engine) : Repeat(k) /\ UNCHANGED <<rngVars, morVars, phonVars, embVars, synVars, extVars>>
    \/ /\ phase = "done"
       /\ \E text \in OtherTexts, e \in Engines :
            \E k \in LoadChoices(e) \cap {0, 1} :
               OtherCall(text, e, k) /\ UNCHANGED <<rngVars, morVars, phonVars, embVars, synVars, extVars>>
    \/ Return /\ UNCHANGED <<rngVars, morVars, phonVars, embVars, synVars, extVars>>

Spec == Init /\ [][Next]_vars

RngNext ==
    \/ \E key \in RngKeys : GetRng(key) /\ UNCHANGED <<trVars, morVars, phonVars, embVars, synVars, extVars>>
    \/ \E i \in 1..MaxGens : Draw(i) /\ UNCHANGED <<trVars, morVars, phonVars, embVars, synVars, extVars>>
    \/ GlobalDraw /\ UNCHANGED <<trVars, morVars, phonVars, embVars, synVars, extVars>>
    \/ DropRng /\ UNCHANGED <<trVars, morVars, phonVars, embVars, synVars, extVars>>

InitRng == TrIdle /\ RngInit /\ MorIdle /\ PhonIdle /\ EmbIdle /\ SynIdle /\ ExtIdle
SpecRng == InitRng /\ [][RngNext]_vars

MorNext ==
    \/ /\ mphase = "idle"
       /\ \E root \in Roots, case \in Case, number \in Number :
            InflectNoun(root, case, number) /\ UNCHANGED <<trVars, rngVars, phonVars, embVars, synVars, extVars>>
    \/ /\ mphase = "idle"
       /\ \E root \in Roots, tense \in Tense, aspect \in Aspect,
             evidentiality \in Evidentiality \cup {"None"} :
            InflectVerb(root, tense, aspect, evidentiality) /\ UNCHANGED <<trVars, rngVars, phonVars, embVars, synVars, extVars>>
    \/ /\ mphase = "idle"
       /\ \E root \in Roots, dt \in DerivationTypes, pos \in {"noun", "verb"} :
            DeriveWord(root, dt, pos) /\ UNCHANGED <<trVars, rngVars, phonVars, embVars, synVars, extVars>>
    \/ /\ mphase = "idle"
       /\ \E root \in Roots, dt \in DerivationTypes :
            Derive(root, dt) /\ UNCHANGED <<trVars, rngVars, phonVars, embVars, synVars, extVars>>
    \/ MorReturn /\ UNCHANGED <<trVars, rngVars, phonVars, embVars, synVars, extVars>>

InitMorph == TrIdle /\ RngInit /\ MorIdle /\ PhonIdle /\ EmbIdle /\ SynIdle /\ ExtIdle
SpecMorph == InitMorph /\ [][MorNext]_vars

PhonNext ==
    \/ /\ pphase = "idle"
       /\ \E seed \in PhonSeeds, count \in 0..MaxSyll :
            GeneratePhonWord(seed, count) /\ UNCHANGED <<trVars, rngVars, morVars, embVars, synVars, extVars>>
    \/ RepeatPhonWord /\ UNCHANGED <<trVars, rngVars, morVars, embVars, synVars, extVars>>
    \/ /\ pphase = "idle"
       /\ \E word \in SoundWords :
            ApplySoundChanges(word) /\ UNCHANGED <<trVars, rngVars, morVars, embVars, synVars, extVars>>
    \/ PhonReturn /\ UNCHANGED <<trVars, rngVars, morVars, embVars, synVars, extVars>>

InitPhon == TrIdle /\ RngInit /\ MorIdle /\ PhonIdle /\ EmbIdle /\ SynIdle /\ ExtIdle
SpecPhon == InitPhon /\ [][PhonNext]_vars

EmbNext ==
    \E text \in EmbTexts, dim \in EmbDims, loads \in BOOLEAN :
        EmbedText(text, dim, loads) /\ UNCHANGED <<trVars, rngVars, morVars, phonVars, synVars, extVars>>

InitEmb == TrIdle /\ RngInit /\ MorIdle /\ PhonIdle /\ EmbInit /\ SynIdle /\ ExtIdle
SpecEmb == InitEmb /\ [][EmbNext]_vars

SynNext ==
    \/ /\ sphase = "idle"
       /\ \E text \in SynTexts :
            ParseEnglish(text) /\ UNCHANGED <<trVars, rngVars, morVars, phonVars, embVars, extVars>>
    \/ /\ sphase = "idle"
       /\ \E text \in SynTexts :
            ParseEnglishAdvanced(text) /\ UNCHANGED <<trVars, rngVars, morVars, phonVars, embVars, extVars>>
    \/ /\ sphase = "idle"
       /\ \E tokens \in SeqsUpTo(TenseWords, MaxTokens) :
            \E verb_idx \in 0..Len(tokens) :
               GuessTense(tokens, verb_idx) /\ UNCHANGED <<trVars, rngVars, morVars, phonVars, embVars, extVars>>
    \/ SynReturn /\ UNCHANGED <<trVars, rngVars, morVars, phonVars, embVars, extVars>>

InitSyn == TrIdle /\ RngInit /\ MorIdle /\ PhonIdle /\ EmbIdle /\ SynIdle /\ ExtIdle
SpecSyn == InitSyn /\ [][SynNext]_vars

(***************************** claims: orchestrator *************************)
IsTextCall     == phase = "done" /\ cur.api = "translate_text"
Returned       == phase = "done" /\ out.raised = "none"
StrippedInput  == Strip(OrEmpty(cur.text).s)

\* the places where a sentence ends: whitespace right after terminal punctuation
Boundaries(s)  == {i \in 2..Len(s) : IsSpace(s[i]) /\ s[i-1] \in TermPunct}
\* the j-th sentence of s: from the previous boundary up to the j-th one
NthBoundary(s, j)  == CHOOSE b \in Boundaries(s) :
                          Cardinality({c \in Boundaries(s) : c <= b}) = j
SentenceStart(s, j) == IF j = 1 THEN 1 ELSE NthBoundary(s, j - 1)
SentenceEnd(s, j)   == IF j = Cardinality(Boundaries(s)) + 1 THEN Len(s)
                       ELSE NthBoundary(s, j) - 1
NthSentence(s, j)   == Strip(SubSeq(s, SentenceStart(s, j), SentenceEnd(s, j)))

\* the text split on the characters '.', '!' and '?' themselves
RECURSIVE SplitOnTerminal(_)
SplitOnTerminal(s) ==
    LET stops == {i \in 1..Len(s) : s[i] \in TermPunct}
    IN  IF stops = {} THEN <<s>>
        ELSE LET i == CHOOSE c \in stops : \A d \in stops : c <= d
             IN  <<SubSeq(s, 1, i - 1)>> \o SplitOnTerminal(SubSeq(s, i + 1, Len(s)))
NonEmptyCount(pieces) == Cardinality({i \in 1..Len(pieces) : Strip(pieces[i]) # <<>>})

\* C1: two calls translate_text(T, r, e) with equal arguments return equal
\* lists of records, whatever calls ran before or between them.
C1_SameInputSameOutput ==
    (phase = "done" /\ prev.has) => (prev.raised = out.raised /\ prev.recs = out.recs)

\* C2 as stated: translate_text(T) returns as many records as T has non-empty
\* sentences when split on the characters '.', '!' and '?'; the empty list for
\* empty or whitespace-only T; no empty sentence reaches translate_sentence.
C2_CountSplitOnPunctuation ==
    (IsTextCall /\ Returned /\ cur.text.t = "str") =>
        /\ Len(out.recs) = NonEmptyCount(SplitOnTerminal(cur.text.s))
        /\ \A i \in 1..Len(out.recs) : out.recs[i].source # <<>>

\* C2 amended: translate_text(T) returns as many records as the stripped T has
\* sentences when it is cut at each whitespace run that directly follows a
\* '.', '!' or '?'; the empty list for empty or whitespace-only T; no empty
\* sentence reaches translate_sentence.
C2_CountSplitAfterPunctuation ==
    (IsTextCall /\ Returned /\ cur.text.t = "str") =>
        /\ Len(out.recs) = IF StrippedInput = <<>> THEN 0
                           ELSE Cardinality(Boundaries(StrippedInput)) + 1
        /\ \A i \in 1..Len(out.recs) : out.recs[i].source # <<>>
C2_Witness ==
    /\ IsTextCall /\ Returned /\ cur.text.t = "str"
    /\ Len(out.recs) = 2
    /\ NonEmptyCount(SplitOnTerminal(cur.text.s)) = 2

\* C3: every record translate_text returns with engine 'core' has a target
\* holding exactly one well-formed bracketed context-tail segment.
Opens(target)  == {i \in 1..Len(target) : target[i].k = "open"}
Closes(target) == {i \in 1..Len(target) : target[i].k = "close"}
OneCtxTail(target) ==
    /\ Cardinality(Opens(target)) = 1
    /\ Cardinality(Closes(target)) = 1
    /\ \A i \in Opens(target), j \in Closes(target) : i < j
CoreRendering(source, mirror_rate) ==
    translate_sentence(PyStr(source), mirror_rate, "core", "None", "None", AllOk, FALSE).recs[1]
C4_AlternateFailureFallsBackToCore ==
    (phase = "done" /\ OrEmpty(cur.text).t = "str") =>
        /\ out.raised = "none"
        /\ \A i \in 1..Len(ghost) :
            /\ Len(ghost[i].attempted) <= 1
            /\ ghost[i].caught => out.recs[i] = CoreRendering(out.recs[i].source, cur.mirror_rate)
C4_Witness ==
    /\ phase = "done" /\ cur.api = "translate_sentence" /\ cur.engine = "transformer"
    /\ Len(ghost) = 1 /\ ghost[1].caught /\ ghost[1].attempted = <<"transformer">>
    /\ out.recs[1].engine = "core"

\* C5: the engine field is set by one rule for all alternate engines and names
\* the strategy that produced the record: the requested engine when that engine
\* produced it, 'core' after a fallback to the baseline.
FellBack(g) == g.caught \/ g.inner
C5_EngineFieldNamesProducer ==
    phase = "done" =>
        \A i \in 1..Len(ghost) :
            out.recs[i].engine = IF FellBack(ghost[i]) THEN "core" ELSE ghost[i].requested

\* C6: a malformed call (text that is not a string, mirror_rate outside [0, 1])
\* is rejected with a typed error before any work is done; no record is produced.
Malformed(c)  == c.text.t # "str" \/ c.mirror_rate < 0 \/ c.mirror_rate > 100
UsageErrors   == {"TypeError", "ValueError"}
C6_MalformedCallRejected ==
    (phase = "done" /\ Malformed(cur)) => (out.raised \in UsageErrors /\ out.recs = <<>>)

\* C7: translate_text returns its records in sentence order, the i-th record's
\* source being the i-th non-empty sentence with surrounding whitespace removed,
\* and every record carries source, target, lemma, anchors and engine.
RecordFields == {"source", "target", "lemma", "anchors", "engine"}
C7_RecordsInSentenceOrder ==
    /\ (IsTextCall /\ Returned /\ cur.text.t = "str") =>
          \A i \in 1..Len(out.recs) : out.recs[i].source = NthSentence(StrippedInput, i)
    /\ phase = "done" =>
          \A i \in 1..Len(out.recs) : RecordFields \subseteq DOMAIN out.recs[i]
C7_Witness ==
    /\ IsTextCall /\ Returned /\ cur.engine = "transformer"
    /\ Len(out.recs) = 2
    /\ out.recs[1].source = <<"B", ".">> /\ out.recs[2].source = <<"B">>

(***************************** claims: seed derivation **********************)
\* the first n draws of a generator seeded with the key's seed
DrawsOf(key, n) == [j \in 1..n |-> Output(StepN(Seeded(stable_seed(key)), j))]
InRange64(n) == Len(n) = 8 /\ \A i \in 1..Len(n) : n[i] \in 0..255

MorReturned == mphase = "done" /\ mword.raised = "none"
FrontCount(root) == Cardinality({i \in 1..Len(root) : LowerChar(root[i]) \in FRONT_VOWELS})
BackCount(root)  == Cardinality({i \in 1..Len(root) : LowerChar(root[i]) \in BACK_VOWELS})
ClassOf(root)    == IF FrontCount(root) > BackCount(root) THEN "front" ELSE "back"
\* what was appended to the root
Appended(w)      == SubSeq(w.surface_form, Len(w.root) + 1, Len(w.surface_form))
EndsWith(s, t)   == Len(s) >= Len(t) /\ SubSeq(s, Len(s) - Len(t) + 1, Len(s)) = t
RECURSIVE Concat(_)
Concat(ss) == IF ss = <<>> THEN <<>> ELSE Head(ss) \o Concat(Tail(ss))
\* the allomorphs of class h of the features a call applies
AllomorphsOf(c, h) ==
    CASE c.op = "inflect_noun" ->
           (IF c.number # "SINGULAR" THEN <<NUMBER_SUFFIXES[c.number][h]>> ELSE <<>>)
           \o (IF c.case # "NOMINATIVE" THEN <<CASE_SUFFIXES[c.case][h]>> ELSE <<>>)
      [] c.op = "inflect_verb" ->
           <<ASPECT_SUFFIXES[c.aspect][h], TENSE_SUFFIXES[c.tense][h]>>
           \o (IF c.evidentiality # "None"
               THEN <<EVIDENTIALITY_SUFFIXES[c.evidentiality][h]>> ELSE <<>>)
      [] OTHER -> <<DERIVATIONAL_SUFFIXES[c.derivation_type][h]>>
\* their concatenations, in any order
AnyOrder(ss) == { Concat([i \in 1..Len(ss) |-> ss[p[i]]]) : p \in Permutations(1..Len(ss)) }

\* C9: a root is classed front exactly when it has strictly more front-set
\* than back-set vowels (a tie or no vowel gives back), and every suffix that
\* inflect_noun, inflect_verb and derive_word append is the allomorph of that
\* class; an all-back root in the accusative ends in -ol/, never in -el/.
C9_SuffixesFollowRootHarmony ==
    MorReturned =>
        /\ mword.harmony = ClassOf(mcall.root)
        /\ Appended(mword.word[1]) \in AnyOrder(AllomorphsOf(mcall, ClassOf(mcall.root)))
        /\ (mcall.op = "inflect_noun" /\ mcall.case = "ACCUSATIVE"
              /\ FrontCount(mcall.root) = 0 /\ BackCount(mcall.root) > 0) =>
             /\ EndsWith(mword.word[1].surface_form, <<"-", "o", "l/">>)
             /\ ~EndsWith(mword.word[1].surface_form, <<"-", "e", "l/">>)
C9_Witness ==
    /\ MorReturned /\ mcall.op = "inflect_noun"
    /\ mcall.root = <<"E", "a", "e'">> /\ mcall.case = "ACCUSATIVE" /\ mcall.number = "PLURAL"
    /\ mword.word[1].surface_form = <<"E", "a", "e'", "-", "e", "k", "-", "e", "l/">>

\* C10: inflect_noun appends the number suffix before the case suffix and
\* inflect_verb aspect, then tense, then evidentiality; the gloss is the root
\* followed by the short codes of exactly the applied features, in that order,
\* joined by '-'.
Either(table, member) == {table[member].front, table[member].back}
C11_GlossNamesCaseAndTense ==
    /\ (MorReturned /\ mcall.op = "inflect_noun") =>
          Contains(mword.word[1].gloss, CaseValue[mcall.case])
    /\ (MorReturned /\ mcall.op = "inflect_verb"
          /\ mcall.tense \in {"PAST", "PRESENT", "FUTURE"}) =>
          Contains(mword.word[1].gloss, TenseValue[mcall.tense])

\* C12: derive_word and the derive shortcut, called with a derivation type
\* outside the derivation table, raise a usage error at once: no word is
\* returned and no other derivation is substituted.
C12_UnknownDerivationRaises ==
    (mphase = "done" /\ mcall.op \in {"derive_word", "derive"}
       /\ mcall.derivation_type \notin DOMAIN DERIVATIONAL_SUFFIXES) =>
        (mword.raised = "ValueError" /\ mword.word = <<>>)
C12_Witness ==
    /\ mphase = "done" /\ mcall.op = "derive" /\ mcall.root = <<"a", "z">>
    /\ mcall.derivation_type = "plural" /\ mword.raised = "ValueError"

\* C13: inflect_noun, inflect_verb and derive_word called with the empty
\* string as root report a usage error instead of returning a word.
C13_EmptyRootRejected ==
    (mphase = "done" /\ mcall.op \in {"inflect_noun", "inflect_verb", "derive_word"}
       /\ mcall.root = <<>>) =>
        (mword.raised \in {"ValueError", "TypeError"} /\ mword.word = <<>>)

(***************************** claims: phonology ****************************)
IsGenCall == pphase = "done" /\ pcall.op = "generate_phonological_word"
\* a nucleus, an onset of at most two consonants that is in the table when it
\* has two, a coda of at most one consonant
WellFormed(syll) ==
    /\ syll.nucleus # <<>>
    /\ Len(syll.onset) <= 2
    /\ Len(syll.onset) = 2 => syll.onset \in valid_onsets
    /\ Len(syll.coda) <= 1

\* C14: every syllable that generate_phonological_word assembles has a
\* non-empty nucleus, an onset of at most two consonants whose pair is in
\* valid_onsets, and a coda of at most one consonant; no syllable failing the
\* validity check is emitted.
C14_AssembledSyllablesWellFormed ==
    IsGenCall =>
        /\ Len(pout.assembled) = pcall.count
        /\ \A i \in 1..Len(pout.assembled) : WellFormed(pout.assembled[i])
        /\ \A i \in 1..Len(pout.syllables) :
              WellFormed(pout.syllables[i]) /\ is_valid_syllable(pout.syllables[i])
C14_Witness ==
    /\ IsGenCall /\ pcall.count = 2
    /\ pcall.seed[1].try_second /\ pout.syllables[1].onset = << <<"s">>, <<"t">> >>
    /\ pcall.seed[2].try_second /\ pout.syllables[2].onset = << <<"t">> >>
    /\ pout.syllables[2].coda = << <<"t">> >>

PhonVowels == HANGUL_VOWELS \cup LATIN_VOWELS
RECURSIVE IsSubsequence(_, _)
IsSubsequence(a, b) ==
    IF a = <<>> THEN TRUE
    ELSE IF b = <<>> THEN FALSE
    ELSE IF Head(a) = Head(b) THEN IsSubsequence(Tail(a), Tail(b))
    ELSE IsSubsequence(a, Tail(b))
NucleiOf(syllables) == JoinAll([i \in 1..Len(syllables) |-> syllables[i].nucleus])
\* the consonant strings the tables allow before and after a nucleus
SingleConsonants == LATIN_CONSONANTS \cup HANGUL_CONSONANTS \cup HANGUL_CODAS \cup LatinCodas
OnsetStrings == {<<>>} \cup SingleConsonants \cup {JoinAll(o) : o \in valid_onsets}
CodaStrings  == {<<>>} \cup SingleConsonants \cup {JoinAll(c) : c \in valid_codas}
\* the maximal runs of consonant characters of a word, as pairs of positions
ConsonantRuns(w) ==
    { r \in (1..Len(w)) \X (1..Len(w)) :
        /\ r[1] <= r[2]
        /\ \A i \in r[1]..r[2] : w[i] \notin PhonVowels
        /\ (r[1] = 1 \/ w[r[1] - 1] \in PhonVowels)
        /\ (r[2] = Len(w) \/ w[r[2] + 1] \in PhonVowels) }
RunAllowed(w, r) ==
    LET run == SubSeq(w, r[1], r[2]) IN
    IF r[1] = 1 /\ r[2] = Len(w) THEN FALSE
    ELSE IF r[1] = 1 THEN run \in OnsetStrings
    ELSE IF r[2] = Len(w) THEN run \in CodaStrings
    ELSE \E k \in 0..Len(run) :
            SubSeq(run, 1, k) \in CodaStrings /\ SubSeq(run, k + 1, Len(run)) \in OnsetStrings

\* C15: the same semantic seed and syllable count always give the same word,
\* and the returned word, after the sound changes, keeps the nucleus of every
\* generated syllable and holds no consonant cluster outside the valid onset
\* and coda tables.
C15_WordStableAndValid ==
    IsGenCall =>
        /\ pprev.has => pprev.word = pout.word
        /\ IsSubsequence(NucleiOf(pout.syllables),
                         SelectSeq(pout.word, LAMBDA c : c \in PhonVowels))
        /\ \A r \in ConsonantRuns(pout.word) : RunAllowed(pout.word, r)

\* C16: apply_sound_changes is idempotent: applied to its own result it
\* returns that result unchanged.
C16_SoundChangesIdempotent ==
    (pphase = "done" /\ pcall.op = "apply_sound_changes") =>
        apply_sound_changes(pout.word) = pout.word

(***************************** claims: embeddings ***************************)
\* C17: within one process embed_text uses a single backend: either every
\* vector it has returned comes from the learned encoder or every one comes
\* from the hash-seeded fallback.
C17_SingleEmbeddingBackend ==
    \A i, j \in 1..Len(embLog) : embLog[i].backend = embLog[j].backend

(***************************** claims: syntax *******************************)
SynParsed(op) == sphase = "done" /\ scall.op = op /\ sout.raised = ""
Simple == scall.op = "parse_english"
\* the parsed token i (from 0) in lower case, as both parsers compare it
SynWord(i) == IF Simple THEN Lower(sout.tokens[i + 1]) ELSE sout.tokens[i + 1].word
\* token i is an auxiliary the parser knows: "will" in syntax.py, the seven
\* modals in enhanced_syntax.py
IsAux(i) == IF Simple THEN SynWord(i) = <<"w","i","l","l">> ELSE SynWord(i) \in Modals
\* token i is in the parser's closed verb list or has a verbal ending
IsVerbal(i) ==
    IF Simple THEN LooksLikeVerb(SynWord(i))
    ELSE sout.tokens[i + 1].pos = "VERB" /\ ~IsAux(i)
\* token j is what the parser takes for the verb of auxiliary i: the token
\* right after it in syntax.py, a token tagged VERB one or two places after
\* it in enhanced_syntax.py
FollowsAux(i, j) ==
    /\ IsAux(i)
    /\ IF Simple THEN j = i + 1 ELSE j \in {i + 1, i + 2} /\ sout.tokens[j + 1].pos = "VERB"
AuxPairs ==
    {pr \in (0..(Len(sout.tokens) - 1)) \X (0..(Len(sout.tokens) - 1)) : FollowsAux(pr[1], pr[2])}
Before(a, b) == a[1] < b[1] \/ (a[1] = b[1] /\ a[2] <= b[2])

SynToken(i) == IF Simple THEN sout.tokens[i + 1] ELSE sout.tokens[i + 1].word
\* token i is in the parser's closed set of context markers
IsMarker(i) ==
    IF Simple THEN SynWord(i) \in _CONTEXT_MARKERS ELSE SynWord(i) \in DOMAIN context_markers
\* the surface form of the dependent of the main clause with this role, "" when there is none
RECURSIVE DependentForm(_, _)
DependentForm(dependents, role) ==
    IF dependents = <<>> THEN <<>>
    ELSE IF Head(dependents).role = role THEN Head(dependents).surface_form
    ELSE DependentForm(Tail(dependents), role)
SubjectPhrase ==
    IF Simple THEN sout.parsed.subject ELSE DependentForm(sout.main_clause.dependents, "subj")
\* the tokens from index from up to, not including, index to that are not context markers
RECURSIVE Unmarked(_, _)
Unmarked(from, to) ==
    IF from >= to THEN <<>>
    ELSE (IF IsMarker(from) THEN <<>> ELSE <<SynToken(from)>>) \o Unmarked(from + 1, to)

\* C19: the subject phrase is the tokens before the verb index, in their
\* order, without the context markers, and nothing else.
C19_SubjectIsUnmarkedTokensBeforeVerb ==
    (sphase = "done" /\ sout.raised = "" /\ sout.tokens # <<>>) =>
        SubjectPhrase = JoinWith(Unmarked(0, sout.vidx), <<" ">>)

\* the tokens from index from up to, not including, index to
RECURSIVE TokensFrom(_, _)
TokensFrom(from, to) ==
    IF from >= to THEN <<>> ELSE <<SynToken(from)>> \o TokensFrom(from + 1, to)
\* the index of the first context marker after the verb, len(tokens) when there is none
FirstMarkerAfterVerb ==
    LET marks == {i \in (sout.vidx + 1)..(Len(sout.tokens) - 1) : IsMarker(i)}
    IN  IF marks = {} THEN Len(sout.tokens) ELSE Least(marks)
ObjectPhrase ==
    IF Simple THEN sout.parsed.obj ELSE DependentForm(sout.main_clause.dependents, "dobj")
\* the index after the clause that the marker at index m introduces
ClauseEnd(m) ==
    LET later == {i \in (m + 1)..(Len(sout.tokens) - 1) : IsMarker(i)}
    IN  IF later = {} THEN Len(sout.tokens) ELSE Least(later)
\* the markers after the verb that introduce at least one token
Introducers ==
    {m \in FirstMarkerAfterVerb..(Len(sout.tokens) - 1) : IsMarker(m) /\ m + 1 < ClauseEnd(m)}
\* the clause of the marker at index m, as the marker table classifies it
ClauseOfMarker(m) ==
    ContextClause(JoinWith(TokensFrom(m + 1, ClauseEnd(m)), <<" ">>),
                  context_markers[SynWord(m)], SynWord(m))

\* C20: the object phrase is the tokens between the verb and the first
\* context marker after it; the context is the tokens from that marker on:
\* one string in syntax.py, and in enhanced_syntax.py one clause per marker
\* after the verb, keyed by the marker, typed by the marker table and made of
\* the tokens the marker introduces, so that no token before the verb is in
\* a context clause.
C20_ObjectAndContextSplitAfterVerb ==
    (sphase = "done" /\ sout.raised = "" /\ sout.tokens # <<>>) =>
        /\ ObjectPhrase = JoinWith(TokensFrom(sout.vidx + 1, FirstMarkerAfterVerb), <<" ">>)
        /\ Simple =>
             sout.parsed.context =
                 JoinWith(TokensFrom(FirstMarkerAfterVerb, Len(sout.tokens)), <<" ">>)
        /\ ~Simple =>
             /\ Len(sout.context_clauses) = Cardinality(Introducers)
             /\ \A m \in Introducers :
                  sout.context_clauses[Cardinality({x \in Introducers : x <= m})]
                      = ClauseOfMarker(m)

\* the tokens and the verb index a tense was guessed for
TenseTokens == IF scall.op = "_guess_tense" THEN scall.tokens ELSE sout.tokens
TenseIndex == IF scall.op = "_guess_tense" THEN scall.verb_idx ELSE sout.vidx
TenseGuessed == IF scall.op = "_guess_tense" THEN sout.tense ELSE sout.parsed.tense
WillAtOrBeforeVerb ==
    \E i \in 0..min(TenseIndex, Len(TenseTokens) - 1) : Lower(TenseTokens[i + 1]) = <<"w","i","l","l">>
PastVerb ==
    /\ TenseIndex < Len(TenseTokens)
    /\ LET v == Lower(TenseTokens[TenseIndex + 1])
       IN  endswith(v, <<"e","d">>) \/ v \in {<<"w","a","s">>, <<"w","e","r","e">>, <<"h","a","d">>, <<"d","i","d">>}

\* C21: the tense is 'future' when "will" stands at or before the verb index,
\* otherwise 'past' when the verb ends in "ed" or is was, were, had or did,
\* otherwise 'present'.
C21_TenseByPriority ==
    (sphase = "done" /\ scall.op \in {"_guess_tense", "parse_english"}
        /\ TenseTokens # <<>>) =>
        TenseGuessed = (IF WillAtOrBeforeVerb THEN "future"
                        ELSE IF PastVerb THEN "past" ELSE "present")

\* "will" before a verb with past morphology: the tense is future
C21_Witness ==
    /\ sphase = "done" /\ scall.op = "_guess_tense"
    /\ WillAtOrBeforeVerb /\ PastVerb /\ sout.tense = "future"

\* C22: neither parser raises, whatever the text; a text without tokens gives
\* the empty record.
C22_ParsingNeverRaises ==
    (sphase = "done" /\ scall.op \in {"parse_english", "parse_english_advanced"}) =>
        /\ sout.raised = ""
        /\ (Simple /\ sout.tokens = <<>>) =>
             sout.parsed = ParsedSentence(<<>>, <<>>, <<>>, <<>>, "present", FALSE, FALSE)

\* the phrases of a list that are not empty
RECURSIVE NonEmpty(_)
NonEmpty(parts) ==
    IF parts = <<>> THEN <<>>
    ELSE (IF Head(parts) # <<>> THEN <<Head(parts)>> ELSE <<>>) \o NonEmpty(Tail(parts))
\* the rendering of clause k: the word of its marker, then its content
RenderedClause(k) ==
    _translate_context_marker(sout.context_clauses[k].marker) \o <<" ">>
    \o sout.context_clauses[k].content

\* C23: the surface form is, joined by single spaces and in this order, the
\* subject phrase, the object phrase, the verb, the context clauses and the
\* context tail; a phrase that is empty is left out.
C23_SurfaceFormIsSOVC ==
    (sphase = "done" /\ scall.op = "parse_english_advanced" /\ sout.raised = "") =>
        sout.surface_form =
            JoinWith(NonEmpty(<<SubjectPhrase, ObjectPhrase, sout.main_clause.surface_form>>)
                     \o [k \in 1..Len(sout.context_clauses) |-> RenderedClause(k)]
                     \o <<sout.korean_context>>, <<" ">>)

\* a sentence with a subject, an object, a verb and a context clause
C23_Witness ==
    /\ sphase = "done" /\ scall.op = "parse_english_advanced" /\ sout.raised = ""
    /\ SubjectPhrase # <<>> /\ ObjectPhrase # <<>> /\ sout.context_clauses # <<>>
    /\ sout.korean_context # <<>>

\* a sentence without subject, object and context clause: the verb and the tail
C23_WitnessEmpty ==
    /\ sphase = "done" /\ scall.op = "parse_english_advanced" /\ sout.raised = ""
    /\ SubjectPhrase = <<>> /\ ObjectPhrase = <<>> /\ sout.context_clauses = <<>>
    /\ sout.surface_form = sout.main_clause.surface_form \o <<" ">> \o sout.korean_context

Occurrences(s, c) == Cardinality({i \in 1..Len(s) : s[i] = c})

\* C24: the context tail of every rendered sentence is one bracketed segment
\* of key=value pairs that holds a synthesized tail word and a 'lemma=' entry,
\* and it ends the surface form.
C24_ContextTailHasTailAndLemma ==
    (sphase = "done" /\ scall.op = "parse_english_advanced" /\ sout.raised = "") =>
        LET tail == sout.korean_context
        IN  /\ tail # <<>> /\ Head(tail) = "[[" /\ tail[Len(tail)] = "]]"
            /\ Occurrences(tail, "[[") = 1 /\ Occurrences(tail, "]]") = 1
            /\ endswith(sout.surface_form, tail)
            /\ Contains(tail, <<"han(">>)
            /\ Contains(tail, <<"l","e","m","m","a","=">>)

LexNext ==
    \/ \E entry \in LexEntries :
         AddEntry(entry) /\ UNCHANGED <<trVars, rngVars, morVars, phonVars, embVars, synVars, procVars, cacheVars>>
    \/ \E base_word \in WordsKnown, derivation_type \in LexDerivationTypes :
         CreateDerivedWord(base_word, derivation_type)
         /\ UNCHANGED <<trVars, rngVars, morVars, phonVars, embVars, synVars, procVars, cacheVars>>
    \/ \E word1 \in WordsKnown, word2 \in WordsKnown :
         CreateCompoundWord(word1, word2)
         /\ UNCHANGED <<trVars, rngVars, morVars, phonVars, embVars, synVars, procVars, cacheVars>>
    \/ \E target_size \in 0..MaxEntries :
         ExpandVocabulary(target_size)
         /\ UNCHANGED <<trVars, rngVars, morVars, phonVars, embVars, synVars, procVars, cacheVars>>

InitLex == TrIdle /\ RngInit /\ MorIdle /\ PhonIdle /\ EmbIdle /\ SynIdle /\ LexInit /\ ProcIdle /\ CacheIdle
SpecLex == InitLex /\ [][LexNext]_vars

(***************************** claims: lexicon ******************************)
LexKeys == {lexicon.entries[i].headword : i \in 1..Len(lexicon.entries)}
EntryOf(h) == Lookup(lexicon.entries, h)

\* C30: after any sequence of add_entry, create_derived_word,
\* create_compound_word and expand_vocabulary calls the indexes agree with the
\* entries: by_category[c] is exactly the set of headwords whose entry has
\* category c, and by_semantic_field[f] exactly those whose entry has field f.
C30_IndexesAgreeWithEntries ==
    /\ \A c \in LexicalCategory :
         lexicon.by_category[c] = {h \in LexKeys : EntryOf(h).category = c}
    /\ \A f \in SemanticField :
         lexicon.by_semantic_field[f] = {h \in LexKeys : EntryOf(h).semantic_field = f}

ProcNext ==
    \/ \E entry \in ProcEntries :
         AddEntry(entry)
         /\ UNCHANGED <<trVars, rngVars, morVars, phonVars, embVars, synVars, procVars, cacheVars>>
    \/ \E text \in ProcTexts :
         AnalyzeSemanticCoherence(text)
         /\ UNCHANGED <<trVars, rngVars, morVars, phonVars, embVars, synVars, cacheVars>>
    \/ \E text \in ProcTexts, register \in ProcRegisters, sound_changes \in BOOLEAN :
         TranslateAdvanced(text, register, sound_changes)
         /\ UNCHANGED <<trVars, rngVars, morVars, phonVars, embVars, synVars, cacheVars>>
    \/ GetVocabularyStats
         /\ UNCHANGED <<trVars, rngVars, morVars, phonVars, embVars, synVars, cacheVars>>

InitProc == TrIdle /\ RngInit /\ MorIdle /\ PhonIdle /\ EmbIdle /\ SynIdle /\ ProcInit /\ CacheIdle
SpecProc == InitProc /\ [][ProcNext]_vars

(***************************** claims: processors ***************************)
\* the last call repeats the first one, on a lexicon that holds the same
Repeated == pfirst.set /\ plast.set

\* C25: no processor keeps mutable state between calls: on one instance,
\* repeating translate_advanced, analyze_semantic_coherence or
\* get_vocabulary_stats with the same input returns what the earlier call
\* returned, whatever calls were made in between.
C25_RepeatedCallSameResult == Repeated => plast.result = pfirst.result

(***************************** claims: the core engine's key ****************)
\* the sentences a second caller may pass: every text of at most three characters
OtherSentences == {PyStr(s) : s \in SeqsUpTo(Alphabet, 3)}
CoreRendered(i) == out.recs[i].engine = "core"
\* the record translate_sentence returns for another sentence in this process
RecordFor(text) ==
    translate_sentence(text, cur.mirror_rate, "core", "None", MODEL, env, FALSE).recs[1]

\* C29: with the core engine the target and anchors of a record depend only
\* on the sentence's lemma (its first normalized word), mirror_rate and W: any
\* other sentence with the same non-empty lemma gets the same target and
\* anchors, and the whole sentence is the key only when the lemma is empty.
C29_CoreKeyIsLemma ==
    Returned =>
        \A i \in 1..Len(out.recs) :
            CoreRendered(i) =>
                LET rec == out.recs[i]
                IN  /\ rec.lemma # <<>> =>
                          \A other \in OtherSentences :
                              _clean_lemma(other) = rec.lemma =>
                                  /\ RecordFor(other).target = rec.target
                                  /\ RecordFor(other).anchors = rec.anchors
                    /\ rec.lemma = <<>> => rec.anchors[1].of = rec.source
                    /\ rec.lemma # <<>> => rec.anchors[1].of = rec.lemma
\* a sentence of two words was rendered by the core engine, and another
\* sentence shares its lemma but not its text
C29_Witness ==
    /\ Returned /\ Len(out.recs) >= 1 /\ CoreRendered(1)
    /\ out.recs[1].lemma # <<>> /\ out.recs[1].lemma # out.recs[1].source
    /\ \E other \in OtherSentences :
          /\ _clean_lemma(other) = out.recs[1].lemma
          /\ Strip(other.s) # out.recs[1].source
          /\ RecordFor(other).target = out.recs[1].target
\* a sentence without a lemma was rendered by the core engine under its own text
C29_WitnessEmptyLemma ==
    /\ Returned /\ Len(out.recs) >= 1 /\ CoreRendered(1)
    /\ out.recs[1].lemma = <<>> /\ out.recs[1].source # <<>>

(***************************** the cache, called from worker threads ********)
\* The handler of POST /translate is a plain def: the server runs it in a
\* thread pool, and put_cached_translation takes no lock.  A thread is
\* switched between the statements below; each is one step.
MaxThreads == 2       \* worker threads
Workers    == 1..MaxThreads
ThreadSources == { <<"e">>, <<"b">> }
IdleThread == [ pc |-> "idle", fd |-> 0, buffer |-> <<>>, seen |-> 0 ]
At(t, pc)  == threads[t].pc = pc
Goto(t, pc) == threads' = [threads EXCEPT ![t].pc = pc]

\* lines 95-108: the entry is built and stored in the dictionary
ThreadStore(t, source, mirror_rate, loads) ==
    /\ At(t, "idle")
    /\ Len(puts) < MaxPuts
    /\ \E emb \in { embed_text(PyStr(CacheTarget), 300, embModel, embDim, embLib, loads) } :
         /\ embModel' = emb.model /\ embDim' = emb.dim
         /\ \E entry \in { CacheEntry(source, CacheTarget, "core", mirror_rate, <<>>,
                                      emb.vector, Len(puts) + 1) } :
              /\ _cache' = CacheSet(_cache, _key(source, "core", mirror_rate), entry)
              /\ puts' = Append(puts, [ source |-> source, engine |-> "core",
                                        mirror_rate |-> mirror_rate, entry |-> entry ])
    /\ Goto(t, "open")
    /\ UNCHANGED <<_initialized, disk, weblog, wfirst, embLib, embLog>>

\* save_cache, line 69: open(tmp_path, "w")
ThreadOpen(t) ==
    /\ At(t, "open")
    /\ \E opened \in { OpenTmp(disk) } :
         /\ disk' = opened.disk
         /\ threads' = [threads EXCEPT ![t].pc = "dump", ![t].fd = opened.fd]
    /\ UNCHANGED <<_cache, _initialized, puts, weblog, wfirst, embVars>>

\* line 70: json.dump starts to iterate over the dictionary
ThreadDumpBegin(t) ==
    /\ At(t, "dump")
    /\ threads' = [threads EXCEPT ![t].pc = "dumping", ![t].seen = Len(_cache)]
    /\ UNCHANGED <<_cache, _initialized, disk, puts, weblog, wfirst, embVars>>

\* line 70: the iteration ends; it raises RuntimeError when the dictionary
\* changed size meanwhile, and the with statement then closes the file with
\* what was written so far
DumpedSoFar(cache, seen) == SubSeq(JsonDump(cache), 1, seen + 1)
ThreadDumpEnd(t) ==
    /\ At(t, "dumping")
    /\ threads' = [threads EXCEPT
                     ![t].pc = IF Len(_cache) = threads[t].seen THEN "close" ELSE "abort",
                     ![t].buffer = IF Len(_cache) = threads[t].seen THEN JsonDump(_cache)
                                   ELSE DumpedSoFar(_cache, threads[t].seen)]
    /\ UNCHANGED <<_cache, _initialized, disk, puts, weblog, wfirst, embVars>>

\* the end of the with statement: the file object is closed and its buffer
\* written to the file it was opened on
ThreadClose(t) ==
    /\ At(t, "close") \/ At(t, "abort")
    /\ disk' = Flush(disk, threads[t].fd, threads[t].buffer)
    /\ threads' = [threads EXCEPT ![t].pc = IF At(t, "close") THEN "replace" ELSE "return",
                                  ![t].fd = 0, ![t].buffer = <<>>, ![t].seen = 0]
    /\ UNCHANGED <<_cache, _initialized, puts, weblog, wfirst, embVars>>

\* line 71: os.replace(tmp_path, CACHE_PATH); lines 72-74 swallow its error
ThreadReplace(t) ==
    /\ At(t, "replace")
    /\ disk' = os_replace(disk).disk
    /\ Goto(t, "return")
    /\ UNCHANGED <<_cache, _initialized, puts, weblog, wfirst, embVars>>

\* line 110: put_cached_translation returns
ThreadReturn(t) ==
    /\ At(t, "return")
    /\ Goto(t, "idle")
    /\ UNCHANGED <<_cache, _initialized, disk, puts, weblog, wfirst, embVars>>

ThreadsNext ==
    \/ \E t \in Workers :
         /\ At(t, "idle") /\ Len(puts) < MaxPuts
         /\ \E source \in ThreadSources, loads \in BOOLEAN :
              ThreadStore(t, source, 80000, loads)
              /\ UNCHANGED <<trVars, rngVars, morVars, phonVars, synVars, lexVars, procVars>>
    \/ \E t \in Workers :
         ThreadOpen(t)
         /\ UNCHANGED <<trVars, rngVars, morVars, phonVars, synVars, lexVars, procVars>>
    \/ \E t \in Workers :
         ThreadDumpBegin(t)
         /\ UNCHANGED <<trVars, rngVars, morVars, phonVars, synVars, lexVars, procVars>>
    \/ \E t \in Workers :
         ThreadDumpEnd(t)
         /\ UNCHANGED <<trVars, rngVars, morVars, phonVars, synVars, lexVars, procVars>>
    \/ \E t \in Workers :
         ThreadClose(t)
         /\ UNCHANGED <<trVars, rngVars, morVars, phonVars, synVars, lexVars, procVars>>
    \/ \E t \in Workers :
         ThreadReplace(t)
         /\ UNCHANGED <<trVars, rngVars, morVars, phonVars, synVars, lexVars, procVars>>
    \/ \E t \in Workers :
         ThreadReturn(t)
         /\ UNCHANGED <<trVars, rngVars, morVars, phonVars, synVars, lexVars, procVars>>

\* the server has started: app.py line 43 has run init_cache() on an empty
\* data/cache, and the pool's threads wait for requests
InitThreads ==
    /\ TrIdle /\ RngInit /\ MorIdle /\ PhonIdle /\ EmbIdle /\ SynIdle /\ LexInit /\ ProcIdle
    /\ _cache = <<>> /\ _initialized = TRUE /\ disk = NoFiles /\ puts = <<>>
    /\ weblog = NoWebCall /\ wfirst = NoFirst
    /\ threads = [t \in Workers |-> IdleThread]
SpecThreads == InitThreads /\ [][ThreadsNext]_vars

(***************************** the cache, one caller at a time **************)
CacheNext ==
    \/ /\ Len(puts) < MaxPuts
       /\ \E source \in CacheSources, mirror_rate \in PutRates, loads \in BOOLEAN :
            PutCachedTranslation(source, CacheTarget, "core", mirror_rate, loads)
            /\ UNCHANGED <<trVars, rngVars, morVars, phonVars, synVars, lexVars, procVars>>
    \/ \E source \in CacheSources, engine \in GetEngines, mirror_rate \in CacheRates :
            GetCachedTranslation(source, engine, mirror_rate)
            /\ UNCHANGED <<trVars, rngVars, morVars, phonVars, synVars, lexVars, procVars>>
    \/ Restart /\ UNCHANGED <<rngVars, morVars, phonVars, synVars, lexVars, procVars>>

InitCache ==
    /\ TrIdle /\ RngInit /\ MorIdle /\ PhonIdle /\ EmbIdle /\ SynIdle /\ LexInit /\ ProcIdle
    /\ CacheIdle
SpecCache == InitCache /\ [][CacheNext]_vars

(***************************** the web handler, one request at a time *******)
WebNext ==
    \/ /\ Len(puts) <= MaxPuts
       /\ \E req \in Requests, loads \in BOOLEAN :
            Translate(req, loads, 0)
            /\ UNCHANGED <<rngVars, morVars, phonVars, synVars, lexVars, procVars>>
    \/ Restart /\ UNCHANGED <<rngVars, morVars, phonVars, synVars, lexVars, procVars>>

InitWeb ==
    /\ phase = "idle" /\ cur = NoCall /\ out = NoOut /\ prev = NoPrev /\ ghost = <<>>
    /\ MODEL = "None" /\ env \in CacheEnvs
    /\ RngInit /\ MorIdle /\ PhonIdle /\ EmbIdle /\ SynIdle /\ LexInit /\ ProcIdle
    /\ CacheIdle
SpecWeb == InitWeb /\ [][WebNext]_vars

(***************************** claims: the cache ****************************)
\* the puts made for exactly the triple that was looked up
PutsFor(req) ==
    { i \in 1..Len(puts) : /\ puts[i].engine = req.engine
                           /\ puts[i].mirror_rate = req.mirror_rate
                           /\ Strip(puts[i].source) = Strip(req.text) }
Latest(S) == CHOOSE i \in S : \A j \in S : j <= i

\* C26: once POST /translate has answered a request (text, engine,
\* mirror_rate), every later identical request is answered from the cache:
\* 'cached' is true, the rows are the same and translate_text is not called.
C26_RepeatedRequestServedFromCache ==
    (weblog.op = "translate" /\ weblog.later) =>
        /\ weblog.cached
        /\ ~weblog.called
        /\ weblog.rows = wfirst.rows

\* C27: get_cached_translation(source, engine, mirror_rate) returns the entry
\* most recently put for exactly that engine, that mirror rate and that
\* source (trimmed), and None when nothing was put for that triple.
C27_GetReturnsLatestPutOfTriple ==
    weblog.op = "get" =>
        IF PutsFor(weblog.req) = {} THEN ~weblog.cached
        ELSE /\ weblog.cached
             /\ weblog.rows = <<puts[Latest(PutsFor(weblog.req))].entry>>

\* the last put made under the same key
IsLatestPut(i) ==
    \A j \in 1..Len(puts) :
        _key(puts[j].source, puts[j].engine, puts[j].mirror_rate)
          = _key(puts[i].source, puts[i].engine, puts[i].mirror_rate) => j <= i
AllReturned == puts # <<>> /\ \A t \in Workers : At(t, "idle")

\* C28: when put_cached_translation is called from several threads at once,
\* then once every call has returned translations.json is a well-formed JSON
\* object that holds every entry that was put.
C28_ConcurrentPutsAllSaved ==
    AllReturned =>
        /\ IsJsonObject(CacheFile(disk))
        /\ \A i \in 1..Len(puts) :
              IsLatestPut(i) =>
                  LET k == _key(puts[i].source, puts[i].engine, puts[i].mirror_rate)
                      stored == JsonLoad(CacheFile(disk)).data
                  IN  CacheHas(stored, k) /\ CacheGet(stored, k) = puts[i].entry

====
